---- MODULE Spec2Model ----
(***************************************************************************)
(* Model of the kubetools Twitter bot posting pipeline:                    *)
(*   src/src/scheduler.py  TweetScheduler / QueuedTweet                    *)
(*   src/src/database.py   Database (SQLite mode and JSON-fallback mode)   *)
(*                                                                         *)
(* Time is an integer number of minutes since midnight of day 0 (UTC,      *)
(* naive datetimes as the code uses them).  date(t) = t \div 1440.         *)
(***************************************************************************)
EXTENDS Integers, Sequences, FiniteSets, TLC

VARIABLES
    clock,              \* datetime.utcnow()
    tweets_per_day,     \* TweetScheduler.tweets_per_day
    optimal_hours,      \* TweetScheduler.optimal_hours
    tweet_queue,        \* TweetScheduler.tweet_queue (list of QueuedTweet)
    queue_file,         \* contents of data/tweet_queue.json
    use_json_fallback,  \* Database.use_json_fallback
    tools,              \* tools table / tools.json
    posted_tweets,      \* posted_tweets table / posted_tweets.json
    queued_tweets,      \* queued_tweets table / queued_tweets.json
    bot_state,          \* bot_state table / bot_state.json
    op,                 \* the last call: its name, return value, entry handed to the posting client
    next_uid,           \* creation counter of QueuedTweet objects (object identity)
    failures,           \* per QueuedTweet object: failed deliveries so far (history)
    calls,              \* number of operations performed so far
    tasks,              \* asyncio tasks created by run_continuous, in creation order
    current,            \* index in tasks of the task holding the event loop, 0 when none does
    proc                \* the process started by main() in once or health mode

vars == <<clock, tweets_per_day, optimal_hours, tweet_queue, queue_file,
          use_json_fallback, tools, posted_tweets, queued_tweets, bot_state,
          op, next_uid, failures, calls, tasks, current, proc>>

loopVars == <<tasks, current>>

----------------------------------------------------------------------------
(* Bounds of the model *)

MaxCalls == 6           \* length of the operation sequences explored
MaxStoreCalls == 4      \* length of the State Store operation sequences explored
MaxRecent == 4          \* length of the recent-send list given to _calculate_next_slot
MaxQuota == 4           \* largest tweets_per_day given to _calculate_next_slot
MaxTasks == 3           \* number of asyncio tasks created by run_continuous
MaxRuns == 4            \* number of one-shot runs of the process
MaxLiveTweets == 2      \* number of tweets enqueued in the progress specification

ToolNames == {"helm", "k9s"}
QueueToolNames == {"helm"}
ToolUrls == {"u1", "u2"}
Priorities == {1, 3}
StartClocks == {8 * 60}         \* day 0, 08:00
TickSteps == {60, 16 * 60}      \* one hour; sixteen hours (crosses midnight)

(* Program constants *)

MinutesPerDay == 1440
DefaultMaxAttempts == 3
DefaultTweetsPerDay == 4
DefaultOptimalHours == <<9, 13, 17, 21>>
DatetimeMax == 2147483647       \* datetime.max: later than every time of the model
None == -1                      \* Python None for an Optional[datetime]
RetryDelayMinutes == 60         \* timedelta(hours=1)

Max2(a, b) == IF a >= b THEN a ELSE b

DateOf(t) == t \div MinutesPerDay

RECURSIVE SeqMax(_)
SeqMax(s) == IF Len(s) = 1 THEN s[1] ELSE Max2(s[1], SeqMax(Tail(s)))

----------------------------------------------------------------------------
(* datetime.isoformat / datetime.fromisoformat: the text form carries the  *)
(* calendar date and the time of day as separate fields.                   *)

IsoFormat(t) ==
    [date |-> t \div MinutesPerDay,
     hour |-> (t % MinutesPerDay) \div 60,
     minute |-> t % 60]

FromIsoFormat(s) == s.date * MinutesPerDay + s.hour * 60 + s.minute

JsonNull == [date |-> -1, hour |-> 0, minute |-> 0]   \* JSON null in a datetime slot

(* faulty variant of to_dict: the attempts count is not written *)
ToDictNoAttempts(t) ==
    [id |-> t.id, tool_data |-> t.tool_data, tweet_content |-> t.tweet_content,
     created_at |-> IsoFormat(t.created_at),
     scheduled_for |-> IF t.scheduled_for # None THEN IsoFormat(t.scheduled_for) ELSE JsonNull,
     priority |-> t.priority, attempts |-> 0, max_attempts |-> t.max_attempts,
     uid |-> t.uid]

(* QueuedTweet.to_dict *)
ToDict(t) ==
    [id |-> t.id, tool_data |-> t.tool_data, tweet_content |-> t.tweet_content,
     created_at |-> IsoFormat(t.created_at),
     scheduled_for |-> IF t.scheduled_for # None THEN IsoFormat(t.scheduled_for) ELSE JsonNull,
     priority |-> t.priority, attempts |-> t.attempts, max_attempts |-> t.max_attempts,
     uid |-> t.uid]

(* QueuedTweet.from_dict *)
FromDict(d) ==
    [uid |-> d.uid, id |-> d.id, tool_data |-> d.tool_data,
     tweet_content |-> d.tweet_content,
     created_at |-> FromIsoFormat(d.created_at),
     scheduled_for |-> IF d.scheduled_for # JsonNull THEN FromIsoFormat(d.scheduled_for) ELSE None,
     priority |-> d.priority, attempts |-> d.attempts, max_attempts |-> d.max_attempts]

(* TweetScheduler._save_queue: the file content written for a queue *)
SaveQueue(q) == [i \in 1..Len(q) |-> ToDict(q[i])]

(* TweetScheduler._load_queue *)
LoadQueue(f) == [i \in 1..Len(f) |-> FromDict(f[i])]

----------------------------------------------------------------------------
(* TweetScheduler._sort_queue: list.sort is stable, ascending by the key    *)
(* (-priority, scheduled_for or datetime.max, created_at).                 *)

(* faulty variant of the sort key: priority not negated, lowest priority first *)
SortKeyAscendingPriority(t) ==
    <<t.priority,
      IF t.scheduled_for # None THEN t.scheduled_for ELSE DatetimeMax,
      t.created_at>>

SortKey(t) ==
    <<0 - t.priority,
      IF t.scheduled_for # None THEN t.scheduled_for ELSE DatetimeMax,
      t.created_at>>

KeyLess(a, b) ==
    \/ a[1] < b[1]
    \/ a[1] = b[1] /\ a[2] < b[2]
    \/ a[1] = b[1] /\ a[2] = b[2] /\ a[3] < b[3]

RECURSIVE InsertSorted(_, _)
InsertSorted(e, s) ==
    IF s = <<>> THEN <<e>>
    ELSE IF KeyLess(SortKey(e), SortKey(Head(s))) THEN <<e>> \o s
    ELSE <<Head(s)>> \o InsertSorted(e, Tail(s))

RECURSIVE SortInto(_, _)
SortInto(q, acc) ==
    IF q = <<>> THEN acc ELSE SortInto(Tail(q), InsertSorted(Head(q), acc))

SortQueue(q) == SortInto(q, <<>>)

----------------------------------------------------------------------------
(* Scheduling policy *)

(* TweetScheduler.min_interval_hours = max(24 // tweets_per_day - 1, 2) *)
MinIntervalHours(tpd) == Max2(24 \div tpd - 1, 2)

(* faulty variant of _find_next_optimal_hour: candidate_time >= from_time *)
RECURSIVE FirstHourAtOrAfter(_, _, _)
FirstHourAtOrAfter(from_time, hours, fallback) ==
    IF hours = <<>> THEN fallback
    ELSE LET candidate_time == DateOf(from_time) * MinutesPerDay + Head(hours) * 60
         IN IF candidate_time >= from_time THEN candidate_time
            ELSE FirstHourAtOrAfter(from_time, Tail(hours), fallback)

FindNextOptimalHourNotStrict(from_time, hours) ==
    FirstHourAtOrAfter(from_time, hours,
                       (DateOf(from_time) + 1) * MinutesPerDay + hours[1] * 60)

(* TweetScheduler._find_next_optimal_hour *)
RECURSIVE FirstHourAfter(_, _, _)
FirstHourAfter(from_time, hours, fallback) ==
    IF hours = <<>> THEN fallback
    ELSE LET candidate_time == DateOf(from_time) * MinutesPerDay + Head(hours) * 60
         IN IF candidate_time > from_time THEN candidate_time
            ELSE FirstHourAfter(from_time, Tail(hours), fallback)

FindNextOptimalHour(from_time, hours) ==
    FirstHourAfter(from_time, hours,
                   (DateOf(from_time) + 1) * MinutesPerDay + hours[1] * 60)

(* Database.get_recent_tweet_times: posted_at of the records not older     *)
(* than the cutoff, in stored order.                                       *)
PostedAtTimes(posted) == [i \in 1..Len(posted) |-> FromIsoFormat(posted[i].posted_at)]

GetRecentTweetTimes(posted, now, days) ==
    SelectSeq(PostedAtTimes(posted), LAMBDA t : t >= now - days * MinutesPerDay)

(* faulty variant of _calculate_next_slot: the spacing after the last tweet is not applied *)
CalculateNextSlotNoSpacing(now, recent_tweets, tpd, hours) ==
    LET today_tweets == SelectSeq(recent_tweets, LAMBDA t : DateOf(t) = DateOf(now))
    IN IF Len(today_tweets) < tpd
       THEN FindNextOptimalHour(now, hours)
       ELSE DateOf(now) * MinutesPerDay + hours[1] * 60 + MinutesPerDay

(* faulty variant of _calculate_next_slot: len(today_tweets) <= tweets_per_day *)
CalculateNextSlotTieExcluded(now, recent_tweets, tpd, hours) ==
    LET today_tweets == SelectSeq(recent_tweets, LAMBDA t : DateOf(t) = DateOf(now))
    IN IF Len(today_tweets) <= tpd
       THEN LET next_slot == FindNextOptimalHour(now, hours)
            IN IF recent_tweets # <<>>
               THEN Max2(next_slot, SeqMax(recent_tweets) + MinIntervalHours(tpd) * 60)
               ELSE next_slot
       ELSE DateOf(now) * MinutesPerDay + hours[1] * 60 + MinutesPerDay

(* TweetScheduler._calculate_next_slot *)
CalculateNextSlot(now, recent_tweets, tpd, hours) ==
    LET today_tweets == SelectSeq(recent_tweets, LAMBDA t : DateOf(t) = DateOf(now))
    IN IF Len(today_tweets) < tpd
       THEN LET next_slot == FindNextOptimalHour(now, hours)
            IN IF recent_tweets # <<>>
               THEN Max2(next_slot, SeqMax(recent_tweets) + MinIntervalHours(tpd) * 60)
               ELSE next_slot
       ELSE DateOf(now) * MinutesPerDay + hours[1] * 60 + MinutesPerDay

----------------------------------------------------------------------------
(* Database: each operation is given for both storage modes.  A JSON file  *)
(* and a table are both modelled as the sequence of their records.         *)

TweetData(t) ==
    [tweet_id |-> t.id, tool_data |-> t.tool_data, content |-> t.tweet_content,
     created_at |-> IsoFormat(t.created_at),
     scheduled_for |-> IF t.scheduled_for # None THEN IsoFormat(t.scheduled_for) ELSE JsonNull,
     priority |-> t.priority, attempts |-> t.attempts]

(* Database.add_queued_tweet: append (JSON) / INSERT OR REPLACE on the     *)
(* UNIQUE tweet_id (SQLite)                                                *)
DbAddQueuedTweet(json, table, t) ==
    IF json THEN Append(table, TweetData(t))
    ELSE Append(SelectSeq(table, LAMBDA r : r.tweet_id # t.id), TweetData(t))

PostedData(tweet_id, result, now) ==
    [tweet_id |-> tweet_id, tool_name |-> "Unknown", content |-> result.text,
     posted_at |-> IsoFormat(now)]

(* Database.mark_tweet_posted, SQLite: INSERT INTO posted_tweets fails on  *)
(* a tweet_id already present (UNIQUE); the exception rolls the            *)
(* transaction back and the DELETE is not reached.                         *)
SqlitePostedConflict(posted, tweet_id) ==
    \E i \in 1..Len(posted) : posted[i].tweet_id = tweet_id

MarkPosted_Posted(json, posted, tweet_id, result, now) ==
    IF json \/ ~SqlitePostedConflict(posted, tweet_id)
    THEN Append(posted, PostedData(tweet_id, result, now))
    ELSE posted

MarkPosted_Queued(json, posted, table, tweet_id) ==
    IF json \/ ~SqlitePostedConflict(posted, tweet_id)
    THEN SelectSeq(table, LAMBDA r : r.tweet_id # tweet_id)
    ELSE table

(* Database.mark_tweet_failed *)
MarkFailed_Queued(table, tweet_id) == SelectSeq(table, LAMBDA r : r.tweet_id # tweet_id)

(* Database._set_state_value: update the first item with the key or append *)
(* (JSON) / INSERT OR REPLACE on the PRIMARY KEY (SQLite)                  *)
SetStateValue(json, state, key, value, now) ==
    LET item == [key |-> key, value |-> value, updated_at |-> IsoFormat(now)]
        hits == {i \in 1..Len(state) : state[i].key = key}
    IN IF json
       THEN IF hits = {} THEN Append(state, item)
            ELSE LET first == CHOOSE i \in hits : \A j \in hits : i <= j
                 IN [state EXCEPT ![first] = item]
       ELSE Append(SelectSeq(state, LAMBDA r : r.key # key), item)

(* Database.update_last_tweet_time *)
UpdateLastTweetTime(json, state, now) ==
    SetStateValue(json, state, "last_tweet_time", IsoFormat(now), now)

----------------------------------------------------------------------------
(* TweetScheduler operations *)

Call(name, ret, sent, value) == [name |-> name, ret |-> ret, sent |-> sent, value |-> value]

NoCall == Call("none", FALSE, 0, 0)

TweetId(name, now) == <<name, now>>     \* f"{name}_{now:%Y%m%d_%H%M%S}"

QueueIds(q) == {q[i].id : i \in 1..Len(q)}
QueueUids(q) == {q[i].uid : i \in 1..Len(q)}

(* one more operation of the explored sequence *)
Step ==
    /\ calls < MaxCalls
    /\ calls' = calls + 1

(* TweetScheduler.add_to_queue *)
AddToQueue(name, priority) ==
    /\ Step
    /\ LET scheduled_time ==
               CalculateNextSlot(clock, GetRecentTweetTimes(posted_tweets, clock, 1),
                                 tweets_per_day, optimal_hours)
           queued_tweet ==
               [uid |-> next_uid, id |-> TweetId(name, clock), tool_data |-> name,
                tweet_content |-> <<"tweet", name>>, created_at |-> clock,
                scheduled_for |-> scheduled_time, priority |-> priority,
                attempts |-> 0, max_attempts |-> DefaultMaxAttempts]
           q == SortQueue(Append(tweet_queue, queued_tweet))
       IN /\ tweet_queue' = q
          /\ queue_file' = SaveQueue(q)
          /\ queued_tweets' = DbAddQueuedTweet(use_json_fallback, queued_tweets, queued_tweet)
          /\ op' = Call("add_to_queue", TRUE, 0, 0)
    /\ next_uid' = next_uid + 1
    /\ failures' = Append(failures, 0)
    /\ UNCHANGED <<clock, tweets_per_day, optimal_hours, use_json_fallback, tools,
                   posted_tweets, bot_state>>

(* faulty variant of the empty-queue path: the last-post time is still written *)
PostNextEmptyTouchesState ==
    /\ Step
    /\ tweet_queue = <<>>
    /\ bot_state' = UpdateLastTweetTime(use_json_fallback, bot_state, clock)
    /\ op' = Call("post_next_tweet", FALSE, 0, 0)
    /\ UNCHANGED <<clock, tweets_per_day, optimal_hours, tweet_queue, queue_file,
                   use_json_fallback, tools, posted_tweets, queued_tweets,
                   next_uid, failures>>

(* TweetScheduler.post_next_tweet on an empty queue *)
PostNextEmpty ==
    /\ Step
    /\ tweet_queue = <<>>
    /\ op' = Call("post_next_tweet", FALSE, 0, 0)
    /\ UNCHANGED <<clock, tweets_per_day, optimal_hours, tweet_queue, queue_file,
                   use_json_fallback, tools, posted_tweets, queued_tweets, bot_state,
                   next_uid, failures>>

(* faulty variant of next_tweet: the oldest arrival instead of the head *)
NextTweetOldest(q) ==
    CHOOSE t \in {q[i] : i \in 1..Len(q)} : \A i \in 1..Len(q) : t.uid <= q[i].uid

(* next_tweet = self.tweet_queue[0] *)
NextTweet(q) == q[1]

(* the queue without the entry at index 0: self.tweet_queue.pop(0) *)
Pop0(q) == Tail(q)

(* TweetScheduler.post_next_tweet, the posting client returned a result *)
PostNextSuccess ==
    /\ Step
    /\ tweet_queue # <<>>
    /\ LET next_tweet == NextTweet(tweet_queue)
           result == [text |-> next_tweet.tweet_content]
           q == Pop0(tweet_queue)
       IN /\ tweet_queue' = q
          /\ queue_file' = SaveQueue(q)
          /\ posted_tweets' = MarkPosted_Posted(use_json_fallback, posted_tweets,
                                                next_tweet.id, result, clock)
          /\ queued_tweets' = MarkPosted_Queued(use_json_fallback, posted_tweets,
                                                queued_tweets, next_tweet.id)
          /\ bot_state' = UpdateLastTweetTime(use_json_fallback, bot_state, clock)
          /\ op' = Call("post_next_tweet", TRUE, next_tweet.uid, 0)
    /\ UNCHANGED <<clock, tweets_per_day, optimal_hours, use_json_fallback, tools,
                   next_uid, failures>>

(* faulty variant of the drop test: attempts > max_attempts *)
ExhaustedStrict(attempts, max_attempts) == attempts > max_attempts

(* faulty variant of the drop test: attempts > max_attempts + 1 *)
ExhaustedLate(attempts, max_attempts) == attempts > max_attempts + 1

(* the test after a failed delivery: next_tweet.attempts >= next_tweet.max_attempts *)
Exhausted(attempts, max_attempts) == attempts >= max_attempts

(* faulty variant of the retry time: the delay grows with the attempt number *)
RetryTimeGrowing(now, attempts) == now + RetryDelayMinutes * attempts

(* the retry time: datetime.utcnow() + timedelta(hours=1), whatever the attempt number *)
RetryTime(now, attempts) == now + RetryDelayMinutes

(* TweetScheduler.post_next_tweet, the posting client returned None *)
PostNextFailure ==
    /\ Step
    /\ tweet_queue # <<>>
    /\ LET head == NextTweet(tweet_queue)
           next_tweet == [head EXCEPT !.attempts = head.attempts + 1]
       IN /\ IF Exhausted(next_tweet.attempts, next_tweet.max_attempts)
             THEN /\ tweet_queue' = Pop0(tweet_queue)
                  /\ queued_tweets' = MarkFailed_Queued(queued_tweets, next_tweet.id)
             ELSE /\ tweet_queue' =
                        SortQueue([i \in 1..Len(tweet_queue) |->
                                     IF tweet_queue[i].uid = head.uid
                                     THEN [next_tweet EXCEPT !.scheduled_for =
                                                 RetryTime(clock, next_tweet.attempts)]
                                     ELSE tweet_queue[i]])
                  /\ UNCHANGED queued_tweets
          /\ queue_file' = SaveQueue(tweet_queue')
          /\ failures' = [failures EXCEPT ![head.uid] = @ + 1]
          /\ op' = Call("post_next_tweet", FALSE, head.uid, 0)
    /\ UNCHANGED <<clock, tweets_per_day, optimal_hours, use_json_fallback, tools,
                   posted_tweets, bot_state, next_uid>>

(* TweetScheduler.reschedule_tweet: the first entry with the id *)
RescheduleTweet(tweet_id, new_time) ==
    /\ Step
    /\ LET hits == {i \in 1..Len(tweet_queue) : tweet_queue[i].id = tweet_id}
       IN IF hits # {}
          THEN LET first == CHOOSE i \in hits : \A j \in hits : i <= j
                   q == SortQueue([tweet_queue EXCEPT ![first].scheduled_for = new_time])
               IN /\ tweet_queue' = q
                  /\ queue_file' = SaveQueue(q)
                  /\ op' = Call("reschedule_tweet", TRUE, 0, 0)
          ELSE /\ op' = Call("reschedule_tweet", FALSE, 0, 0)
               /\ UNCHANGED <<tweet_queue, queue_file>>
    /\ UNCHANGED <<clock, tweets_per_day, optimal_hours, use_json_fallback, tools,
                   posted_tweets, queued_tweets, bot_state, next_uid, failures>>

(* TweetScheduler.remove_tweet *)
RemoveTweet(tweet_id) ==
    /\ Step
    /\ LET q == SelectSeq(tweet_queue, LAMBDA t : t.id # tweet_id)
       IN IF Len(q) < Len(tweet_queue)
          THEN /\ tweet_queue' = q
               /\ queue_file' = SaveQueue(q)
               /\ op' = Call("remove_tweet", TRUE, 0, 0)
          ELSE /\ op' = Call("remove_tweet", FALSE, 0, 0)
               /\ UNCHANGED <<tweet_queue, queue_file>>
    /\ UNCHANGED <<clock, tweets_per_day, optimal_hours, use_json_fallback, tools,
                   posted_tweets, queued_tweets, bot_state, next_uid, failures>>

(* TweetScheduler.clear_queue *)
ClearQueue(keep_high_priority) ==
    /\ Step
    /\ LET q == IF keep_high_priority
                THEN SelectSeq(tweet_queue, LAMBDA t : t.priority > 1)
                ELSE <<>>
       IN /\ tweet_queue' = q
          /\ queue_file' = SaveQueue(q)
          /\ op' = Call("clear_queue", TRUE, 0, Len(tweet_queue) - Len(q))
    /\ UNCHANGED <<clock, tweets_per_day, optimal_hours, use_json_fallback, tools,
                   posted_tweets, queued_tweets, bot_state, next_uid, failures>>

(* Process restart: TweetScheduler.__init__ rebuilds the queue with _load_queue *)
Restart ==
    /\ Step
    /\ tweet_queue' = LoadQueue(queue_file)
    /\ op' = Call("__init__", TRUE, 0, 0)
    /\ UNCHANGED <<clock, tweets_per_day, optimal_hours, queue_file, use_json_fallback,
                   tools, posted_tweets, queued_tweets, bot_state, next_uid, failures>>

(* The clock advances between operations *)
Tick(step) ==
    /\ Step
    /\ clock' = clock + step
    /\ op' = NoCall
    /\ UNCHANGED <<tweets_per_day, optimal_hours, tweet_queue, queue_file,
                   use_json_fallback, tools, posted_tweets, queued_tweets, bot_state,
                   next_uid, failures>>

(* no process was started yet *)
NoProc ==
    [mode |-> "none", pc |-> "exited", exit |-> None, dir_ok |-> TRUE, json_ok |-> TRUE,
     new_tools |-> <<>>, detect |-> "none", ran |-> {}, raised |-> FALSE,
     health |-> <<>>, status |-> "none", runs |-> 0]

MissingId == <<"missing", 0>>
RescheduleTimes == {9 * 60 + 30, 18 * 60}   \* day 0, 09:30 and 18:00

Init ==
    /\ clock \in StartClocks
    /\ tweets_per_day = DefaultTweetsPerDay
    /\ optimal_hours = DefaultOptimalHours
    /\ tweet_queue = <<>>
    /\ queue_file = <<>>
    /\ use_json_fallback \in BOOLEAN
    /\ tools = <<>>
    /\ posted_tweets = <<>>
    /\ queued_tweets = <<>>
    /\ bot_state = <<>>
    /\ op = NoCall
    /\ next_uid = 1
    /\ failures = <<>>
    /\ calls = 0
    /\ tasks = <<>>
    /\ current = 0
    /\ proc = NoProc

Next ==
    \/ \E name \in QueueToolNames, priority \in Priorities :
          AddToQueue(name, priority) /\ UNCHANGED <<loopVars, proc>>
    \/ PostNextEmpty /\ UNCHANGED <<loopVars, proc>>
    \/ PostNextSuccess /\ UNCHANGED <<loopVars, proc>>
    \/ PostNextFailure /\ UNCHANGED <<loopVars, proc>>
    \/ \E tweet_id \in QueueIds(tweet_queue) \cup {MissingId},
          new_time \in RescheduleTimes :
          RescheduleTweet(tweet_id, new_time) /\ UNCHANGED <<loopVars, proc>>
    \/ \E tweet_id \in QueueIds(tweet_queue) \cup {MissingId} :
          RemoveTweet(tweet_id) /\ UNCHANGED <<loopVars, proc>>
    \/ \E keep_high_priority \in BOOLEAN : ClearQueue(keep_high_priority) /\ UNCHANGED <<loopVars, proc>>
    \/ Restart /\ UNCHANGED <<loopVars, proc>>
    \/ \E step \in TickSteps : Tick(step) /\ UNCHANGED <<loopVars, proc>>

Spec == Init /\ [][Next]_vars

----------------------------------------------------------------------------
(* The scheduling policy on its own: _calculate_next_slot applied to a     *)
(* clock reading, a daily quota, a list of optimal hours and a posted      *)
(* history drawn from bounded sets.                                        *)

Day1 == MinutesPerDay       \* "today" of the policy runs is day 1, so that day 0 is yesterday

SlotNows ==
    {Day1 + 8 * 60, Day1 + 9 * 60, Day1 + 9 * 60 + 10, Day1 + 15 * 60,
     Day1 + 21 * 60 + 30, Day1 + 23 * 60 + 30}

SlotSendTimes ==
    {8 * 60, 23 * 60, Day1 + 9 * 60 + 5, Day1 + 14 * 60, Day1 + 22 * 60 + 30}

SlotHourLists == {DefaultOptimalHours, <<6, 18>>}

PostedAt(t) ==
    [tweet_id |-> TweetId("helm", t), tool_name |-> "Unknown",
     content |-> <<"tweet", "helm">>, posted_at |-> IsoFormat(t)]

(* posted histories: up to MaxRecent sends in chronological order, none after now *)
SlotHistories(now) ==
    {[i \in 1..Len(s) |-> PostedAt(s[i])] :
        s \in {s \in UNION {[1..n -> SlotSendTimes] : n \in 0..MaxRecent} :
                  /\ \A i \in 1..Len(s) : s[i] <= now
                  /\ \A i \in 1..(Len(s) - 1) : s[i] <= s[i + 1]}}

SlotInit ==
    /\ clock \in SlotNows
    /\ tweets_per_day \in 1..MaxQuota
    /\ optimal_hours \in SlotHourLists
    /\ posted_tweets \in SlotHistories(clock)
    /\ tweet_queue = <<>>
    /\ queue_file = <<>>
    /\ use_json_fallback = FALSE
    /\ tools = <<>>
    /\ queued_tweets = <<>>
    /\ bot_state = <<>>
    /\ op = NoCall
    /\ next_uid = 1
    /\ failures = <<>>
    /\ calls = 0
    /\ tasks = <<>>
    /\ current = 0
    /\ proc = NoProc

CalcSlot ==
    /\ op = NoCall
    /\ op' = Call("_calculate_next_slot", TRUE, 0,
                  CalculateNextSlot(clock, GetRecentTweetTimes(posted_tweets, clock, 1),
                                    tweets_per_day, optimal_hours))
    /\ UNCHANGED <<clock, tweets_per_day, optimal_hours, tweet_queue, queue_file,
                   use_json_fallback, tools, posted_tweets, queued_tweets, bot_state,
                   next_uid, failures, calls, tasks, current, proc>>

SlotNext == CalcSlot

SlotSpec == SlotInit /\ [][SlotNext]_vars

----------------------------------------------------------------------------
(* The State Store on its own: Database operations on the tools collection *)

ToolData(name, url, now) == [name |-> name, url |-> url, first_seen |-> IsoFormat(now)]

(* faulty variant of tool_exists: the url is not compared *)
ToolExistsNameOnly(table, name, url) ==
    \E i \in 1..Len(table) : table[i].name = name

(* Database.tool_exists *)
ToolExists(table, name, url) ==
    \E i \in 1..Len(table) : table[i].name = name /\ table[i].url = url

(* faulty variant of add_tool: the tool is not written *)
DbAddToolNotWritten(json, table, name, url, now) == table

(* Database.add_tool: append (JSON) / INSERT OR IGNORE on UNIQUE(name, url) (SQLite) *)
DbAddTool(json, table, name, url, now) ==
    IF json THEN Append(table, ToolData(name, url, now))
    ELSE IF ToolExists(table, name, url) THEN table
    ELSE Append(table, ToolData(name, url, now))

StoreStep ==
    /\ calls < MaxStoreCalls
    /\ calls' = calls + 1

AddTool(name, url) ==
    /\ StoreStep
    /\ tools' = DbAddTool(use_json_fallback, tools, name, url, clock)
    /\ op' = Call("add_tool", TRUE, 0, 0)
    /\ UNCHANGED <<clock, tweets_per_day, optimal_hours, tweet_queue, queue_file,
                   use_json_fallback, posted_tweets, queued_tweets, bot_state,
                   next_uid, failures>>

CallToolExists(name, url) ==
    /\ StoreStep
    /\ op' = Call("tool_exists", ToolExists(tools, name, url), 0, 0)
    /\ UNCHANGED <<clock, tweets_per_day, optimal_hours, tweet_queue, queue_file,
                   use_json_fallback, tools, posted_tweets, queued_tweets, bot_state,
                   next_uid, failures>>

(* Database._load_json_data when the file cannot be read: logs and returns [] *)
LoadJsonDataFailed == <<>>

(* Database.tool_exists when the storage cannot be read: the JSON branch   *)
(* searches the empty list, the SQLite branch lands in the except clause   *)
(* and returns False.                                                      *)
ToolExistsStorageFailure(json, name, url) ==
    IF json THEN ToolExists(LoadJsonDataFailed, name, url) ELSE FALSE

(* a tool_exists call hit by a storage failure; value 1 marks the failure *)
CallToolExistsStorageFailure(name, url) ==
    /\ StoreStep
    /\ op' = Call("tool_exists", ToolExistsStorageFailure(use_json_fallback, name, url), 0, 1)
    /\ UNCHANGED <<clock, tweets_per_day, optimal_hours, tweet_queue, queue_file,
                   use_json_fallback, tools, posted_tweets, queued_tweets, bot_state,
                   next_uid, failures>>

(* Database.add_tool when the storage cannot be read: the JSON branch      *)
(* appends to the empty list that _load_json_data returned and saves it,   *)
(* the SQLite branch lands in the except clause and returns False; value 1 *)
(* marks the failure.                                                      *)
AddToolReadFailure(name, url) ==
    /\ StoreStep
    /\ IF use_json_fallback
       THEN /\ tools' = DbAddTool(TRUE, LoadJsonDataFailed, name, url, clock)
            /\ op' = Call("add_tool", TRUE, 0, 1)
       ELSE /\ tools' = tools
            /\ op' = Call("add_tool", FALSE, 0, 1)
    /\ UNCHANGED <<clock, tweets_per_day, optimal_hours, tweet_queue, queue_file,
                   use_json_fallback, posted_tweets, queued_tweets, bot_state,
                   next_uid, failures>>

(* the scalar keys of bot_state *)
StateKeys == {"last_check_timestamp", "last_tweet_time"}

(* Database._get_state_value: the value of the first item with the key     *)
(* (JSON) / of the row with the key (SQLite), None when there is none      *)
GetStateValue(json, state, key) ==
    LET hits == {i \in 1..Len(state) : state[i].key = key}
    IN IF hits = {} THEN JsonNull
       ELSE state[CHOOSE i \in hits : \A j \in hits : i <= j].value

(* update_last_check_timestamp / update_last_tweet_time: _set_state_value  *)
(* of the key with now.isoformat()                                         *)
SetState(key) ==
    /\ StoreStep
    /\ bot_state' = SetStateValue(use_json_fallback, bot_state, key, IsoFormat(clock), clock)
    /\ op' = Call("_set_state_value", TRUE, 0, 0)
    /\ UNCHANGED <<clock, tweets_per_day, optimal_hours, tweet_queue, queue_file,
                   use_json_fallback, tools, posted_tweets, queued_tweets,
                   next_uid, failures>>

(* _set_state_value when the storage cannot be read: the JSON branch works *)
(* on the empty list that _load_json_data returned, saves it and returns   *)
(* True; the SQLite branch lands in the except clause and returns False.   *)
SetStateStorageFailure(key) ==
    /\ StoreStep
    /\ IF use_json_fallback
       THEN /\ bot_state' = SetStateValue(TRUE, LoadJsonDataFailed, key,
                                          IsoFormat(clock), clock)
            /\ op' = Call("_set_state_value", TRUE, 0, 1)
       ELSE /\ bot_state' = bot_state
            /\ op' = Call("_set_state_value", FALSE, 0, 1)
    /\ UNCHANGED <<clock, tweets_per_day, optimal_hours, tweet_queue, queue_file,
                   use_json_fallback, tools, posted_tweets, queued_tweets,
                   next_uid, failures>>

(* a _get_state_value call; ret tells whether a value was found *)
CallGetStateValue(key) ==
    /\ StoreStep
    /\ op' = Call("_get_state_value",
                  GetStateValue(use_json_fallback, bot_state, key) # JsonNull, 0, 0)
    /\ UNCHANGED <<clock, tweets_per_day, optimal_hours, tweet_queue, queue_file,
                   use_json_fallback, tools, posted_tweets, queued_tweets, bot_state,
                   next_uid, failures>>

StoreTick ==
    /\ StoreStep
    /\ clock' = clock + 60
    /\ op' = NoCall
    /\ UNCHANGED <<tweets_per_day, optimal_hours, tweet_queue, queue_file,
                   use_json_fallback, tools, posted_tweets, queued_tweets, bot_state,
                   next_uid, failures>>

StoreNext ==
    \/ \E name \in ToolNames, url \in ToolUrls : AddTool(name, url) /\ UNCHANGED <<loopVars, proc>>
    \/ \E name \in ToolNames, url \in ToolUrls : CallToolExists(name, url) /\ UNCHANGED <<loopVars, proc>>
    \/ \E name \in ToolNames, url \in ToolUrls :
          CallToolExistsStorageFailure(name, url) /\ UNCHANGED <<loopVars, proc>>
    \/ \E name \in ToolNames, url \in ToolUrls :
          AddToolReadFailure(name, url) /\ UNCHANGED <<loopVars, proc>>
    \/ \E key \in StateKeys : SetState(key) /\ UNCHANGED <<loopVars, proc>>
    \/ \E key \in StateKeys : SetStateStorageFailure(key) /\ UNCHANGED <<loopVars, proc>>
    \/ \E key \in StateKeys : CallGetStateValue(key) /\ UNCHANGED <<loopVars, proc>>
    \/ StoreTick /\ UNCHANGED <<loopVars, proc>>

StoreSpec == Init /\ [][StoreNext]_vars

----------------------------------------------------------------------------
(* The due test on its own: should_post_tweet applied to a clock reading,  *)
(* a daily quota, a queue and a posted history drawn from bounded sets.    *)

(* Database.get_last_tweet_time: the latest posted_at, None when nothing was posted *)
GetLastTweetTime(posted) ==
    IF posted = <<>> THEN None ELSE SeqMax(PostedAtTimes(posted))

(* faulty variant of should_post_tweet: time since the last post >= min_interval_hours *)
ShouldPostTweetNotStrict(q, now, posted, tpd) ==
    IF q = <<>> THEN FALSE
    ELSE LET next_tweet == q[1]
         IN IF next_tweet.scheduled_for # None /\ next_tweet.scheduled_for <= now THEN TRUE
            ELSE LET last_tweet_time == GetLastTweetTime(posted)
                 IN IF last_tweet_time # None
                    THEN (now - last_tweet_time) * 60 >= MinIntervalHours(tpd) * 3600
                    ELSE FALSE

(* faulty variant of should_post_tweet: only the time since the last post is looked at *)
ShouldPostTweetFallbackOnly(q, now, posted, tpd) ==
    IF q = <<>> THEN FALSE
    ELSE LET last_tweet_time == GetLastTweetTime(posted)
         IN IF last_tweet_time # None
            THEN (now - last_tweet_time) * 60 > MinIntervalHours(tpd) * 3600
            ELSE FALSE

(* TweetScheduler.should_post_tweet *)
ShouldPostTweet(q, now, posted, tpd) ==
    IF q = <<>> THEN FALSE
    ELSE LET next_tweet == q[1]
         IN IF next_tweet.scheduled_for # None /\ next_tweet.scheduled_for <= now THEN TRUE
            ELSE LET last_tweet_time == GetLastTweetTime(posted)
                 IN IF last_tweet_time # None
                    THEN (now - last_tweet_time) * 60 > MinIntervalHours(tpd) * 3600
                    ELSE FALSE

DueAgo == {60, 5 * 60, 5 * 60 + 1, 11 * 60, 23 * 60}   \* minutes between a send and now
DueHeadOffsets == {0 - 60, 0, 60}                      \* head's scheduled_for minus now

(* posted histories: up to MaxRecent sends in chronological order, all before now *)
DueHistories(now) ==
    {[i \in 1..Len(s) |-> PostedAt(now - s[i])] :
        s \in {s \in UNION {[1..n -> DueAgo] : n \in 0..MaxRecent} :
                  \A i \in 1..(Len(s) - 1) : s[i] >= s[i + 1]}}

QueuedAt(uid, now, offset, priority) ==
    [uid |-> uid, id |-> TweetId("helm", now - 120 + uid), tool_data |-> "helm",
     tweet_content |-> <<"tweet", "helm">>, created_at |-> now - 120 + uid,
     scheduled_for |-> now + offset, priority |-> priority,
     attempts |-> 0, max_attempts |-> DefaultMaxAttempts]

(* queues in sort order: empty, one entry, or two entries *)
DueQueues(now) ==
    {<<>>}
    \cup {<<QueuedAt(1, now, d, 1)>> : d \in DueHeadOffsets}
    \cup {SortQueue(<<QueuedAt(1, now, d, 1), QueuedAt(2, now, e, p)>>) :
             d \in DueHeadOffsets, e \in DueHeadOffsets, p \in Priorities}

DueInit ==
    /\ clock \in {Day1 + 9 * 60 + 10, Day1 + 23 * 60 + 30}
    /\ tweets_per_day \in 1..MaxQuota
    /\ optimal_hours = DefaultOptimalHours
    /\ posted_tweets \in DueHistories(clock)
    /\ tweet_queue \in DueQueues(clock)
    /\ queue_file = SaveQueue(tweet_queue)
    /\ use_json_fallback \in BOOLEAN
    /\ tools = <<>>
    /\ queued_tweets = [i \in 1..Len(tweet_queue) |-> TweetData(tweet_queue[i])]
    /\ bot_state = <<>>
    /\ op = NoCall
    /\ next_uid = Len(tweet_queue) + 1
    /\ failures = [i \in 1..Len(tweet_queue) |-> 0]
    /\ calls = 0
    /\ tasks = <<>>
    /\ current = 0
    /\ proc = NoProc

CallShouldPostTweet ==
    /\ op = NoCall
    /\ op' = Call("should_post_tweet",
                  ShouldPostTweet(tweet_queue, clock, posted_tweets, tweets_per_day), 0, 0)
    /\ UNCHANGED <<clock, tweets_per_day, optimal_hours, tweet_queue, queue_file,
                   use_json_fallback, tools, posted_tweets, queued_tweets, bot_state,
                   next_uid, failures, calls, tasks, current, proc>>

DueNext == CallShouldPostTweet

DueSpec == DueInit /\ [][DueNext]_vars

----------------------------------------------------------------------------
(* Continuous mode: run_continuous creates one asyncio task per due job    *)
(* and sleeps; the event loop runs the ready tasks in creation order.  A   *)
(* task gives the loop to another one only where it awaits something that  *)
(* suspends.                                                               *)

(* faulty variant: post_tweet awaits the network and so gives up the event loop *)
PostTweetYields == TRUE

(* TwitterClient.post_tweet calls the blocking tweepy client and awaits    *)
(* nothing: the task keeps the event loop during the call.                 *)
PostTweetSuspends == FALSE

Task(kind, pc, head) == [kind |-> kind, pc |-> pc, head |-> head]

JobOrders ==
    {<<"check_for_new_tools">>, <<"process_tweet_queue">>,
     <<"check_for_new_tools", "process_tweet_queue">>,
     <<"process_tweet_queue", "check_for_new_tools">>}

(* index of the ready task the event loop runs next, 0 when there is none *)
FirstReady ==
    IF \E i \in 1..Len(tasks) : tasks[i].pc = "created"
    THEN CHOOSE i \in 1..Len(tasks) :
             /\ tasks[i].pc = "created"
             /\ \A j \in 1..(i - 1) : tasks[j].pc # "created"
    ELSE 0

(* run_continuous: schedule.run_pending() creates a task for every due     *)
(* job, then the main coroutine sleeps; it runs again only after the ready *)
(* tasks have run.                                                         *)
RunPending(jobs) ==
    /\ current = 0
    /\ FirstReady = 0
    /\ Len(tasks) + Len(jobs) <= MaxTasks
    /\ tasks' = tasks \o [i \in 1..Len(jobs) |-> Task(jobs[i], "created", 0)]
    /\ UNCHANGED <<clock, tweets_per_day, optimal_hours, tweet_queue, queue_file,
                   use_json_fallback, tools, posted_tweets, queued_tweets, bot_state,
                   op, next_uid, failures, calls, current>>

(* check_for_new_tools, first part: KubetoolsMonitor.check_for_new_tools   *)
(* records a tool that tool_exists does not know and reports it as new.    *)
DetectBegin(url) ==
    /\ current = 0
    /\ FirstReady # 0
    /\ tasks[FirstReady].kind = "check_for_new_tools"
    /\ IF ToolExists(tools, "helm", url)
       THEN /\ tasks' = [tasks EXCEPT ![FirstReady].pc = "done"]
            /\ current' = 0
            /\ UNCHANGED tools
       ELSE /\ tasks' = [tasks EXCEPT ![FirstReady].pc = "new_tools"]
            /\ current' = FirstReady
            /\ tools' = DbAddTool(use_json_fallback, tools, "helm", url, clock)
    /\ UNCHANGED <<clock, tweets_per_day, optimal_hours, tweet_queue, queue_file,
                   use_json_fallback, posted_tweets, queued_tweets, bot_state,
                   op, next_uid, failures, calls>>

(* check_for_new_tools, second part: add_to_queue for the new tool *)
DetectFinish ==
    /\ current # 0
    /\ tasks[current].pc = "new_tools"
    /\ AddToQueue("helm", 1)
    /\ tasks' = [tasks EXCEPT ![current].pc = "done"]
    /\ current' = 0

(* faulty variant of process_tweet_queue: post_next_tweet is called for any *)
(* non-empty queue, the result of should_post_tweet is not consulted       *)
PostBeginNoDueTest ==
    /\ current = 0
    /\ FirstReady # 0
    /\ tasks[FirstReady].kind = "process_tweet_queue"
    /\ IF tweet_queue # <<>>
       THEN /\ tasks' = [tasks EXCEPT ![FirstReady] =
                            Task("process_tweet_queue", "post_tweet",
                                 NextTweet(tweet_queue).uid)]
            /\ current' = IF PostTweetSuspends THEN 0 ELSE FirstReady
       ELSE /\ tasks' = [tasks EXCEPT ![FirstReady].pc = "done"]
            /\ current' = 0
    /\ UNCHANGED <<clock, tweets_per_day, optimal_hours, tweet_queue, queue_file,
                   use_json_fallback, tools, posted_tweets, queued_tweets, bot_state,
                   op, next_uid, failures, calls>>

(* process_tweet_queue up to the call of the posting client: the due test, *)
(* then post_next_tweet reads the head and hands it to post_tweet.         *)
PostBegin ==
    /\ current = 0
    /\ FirstReady # 0
    /\ tasks[FirstReady].kind = "process_tweet_queue"
    /\ IF ShouldPostTweet(tweet_queue, clock, posted_tweets, tweets_per_day)
       THEN /\ tasks' = [tasks EXCEPT ![FirstReady] =
                            Task("process_tweet_queue", "post_tweet",
                                 NextTweet(tweet_queue).uid)]
            /\ current' = IF PostTweetSuspends THEN 0 ELSE FirstReady
       ELSE /\ tasks' = [tasks EXCEPT ![FirstReady].pc = "done"]
            /\ current' = 0
    /\ UNCHANGED <<clock, tweets_per_day, optimal_hours, tweet_queue, queue_file,
                   use_json_fallback, tools, posted_tweets, queued_tweets, bot_state,
                   op, next_uid, failures, calls>>

(* a task waiting in post_tweet that may go on: it holds the loop, or it   *)
(* was suspended and nothing else holds the loop                           *)
Resumable(i) ==
    /\ tasks[i].pc = "post_tweet"
    /\ \/ current = i
       \/ PostTweetSuspends /\ current = 0

(* post_next_tweet after post_tweet returned a result *)
PostFinishSuccess ==
    \E i \in 1..Len(tasks) :
        /\ Resumable(i)
        /\ PostNextSuccess
        /\ tasks' = [tasks EXCEPT ![i].pc = "done"]
        /\ current' = 0

(* post_next_tweet after post_tweet returned None *)
PostFinishFailure ==
    \E i \in 1..Len(tasks) :
        /\ Resumable(i)
        /\ PostNextFailure
        /\ tasks' = [tasks EXCEPT ![i].pc = "done"]
        /\ current' = 0

(* time passes while the main coroutine sleeps *)
LoopTick(step) ==
    /\ current = 0
    /\ Tick(step)
    /\ UNCHANGED loopVars

LoopNext ==
    \/ \E jobs \in JobOrders : RunPending(jobs) /\ UNCHANGED proc
    \/ \E url \in ToolUrls : DetectBegin(url) /\ UNCHANGED proc
    \/ DetectFinish /\ UNCHANGED proc
    \/ PostBegin /\ UNCHANGED proc
    \/ PostFinishSuccess /\ UNCHANGED proc
    \/ PostFinishFailure /\ UNCHANGED proc
    \/ \E step \in TickSteps : LoopTick(step) /\ UNCHANGED proc

LoopSpec == Init /\ [][LoopNext]_vars

----------------------------------------------------------------------------
(* One-shot modes: main() builds the bot, runs run_once or health_check    *)
(* and exits.  A call either returns a value or raises; Raised stands for  *)
(* an exception leaving the call.                                          *)

Raised == "raised"

(* faulty variant of an except clause: the exception is not caught *)
Uncaught(outcome, default) == outcome

(* try: ... except Exception as e: logger.error(...); return default *)
ExceptException(outcome, default) == IF outcome = Raised THEN default ELSE outcome

(* faulty variant of Database.__init__: a failure of the JSON set-up is swallowed too *)
DatabaseInitSwallows(dir_ok, sqlite_ok, json_ok) ==
    IF ~dir_ok THEN Raised
    ELSE IF sqlite_ok THEN "sqlite"
    ELSE "json"

(* Database.__init__: the data directory is made (outside any try), then   *)
(* _init_database; when that raises, use_json_fallback is set and          *)
(* _init_json_storage runs inside the except clause, so its failure leaves *)
(* the constructor as an exception.                                        *)
DatabaseInit(dir_ok, sqlite_ok, json_ok) ==
    IF ~dir_ok THEN Raised
    ELSE IF sqlite_ok THEN "sqlite"
    ELSE IF json_ok THEN "json"
    ELSE Raised

Modes == {"once", "health"}

(* main() up to bot = KubetoolsTwitterBot(): the constructor is called     *)
(* outside the try block, so an exception of Database.__init__ ends the    *)
(* process with a traceback and exit status 1.  Whether SQLite can be set  *)
(* up is a property of the installation, held in use_json_fallback.        *)
(* TweetScheduler.__init__ loads the queue file.                           *)
Start(mode, dir_ok, json_ok) ==
    /\ proc.pc = "exited"
    /\ proc.runs < MaxRuns
    /\ use_json_fallback \/ json_ok     \* the JSON set-up runs only when SQLite failed
    /\ LET init == DatabaseInit(dir_ok, ~use_json_fallback, json_ok)
           started == [NoProc EXCEPT !.mode = mode, !.dir_ok = dir_ok, !.json_ok = json_ok,
                                     !.runs = proc.runs + 1]
       IN IF init = Raised
          THEN /\ proc' = [started EXCEPT !.exit = 1]
               /\ UNCHANGED tweet_queue
          ELSE /\ proc' = [started EXCEPT !.pc = IF mode = "health" THEN "health" ELSE "check"]
               /\ tweet_queue' = LoadQueue(queue_file)
    /\ op' = NoCall
    /\ UNCHANGED <<clock, tweets_per_day, optimal_hours, queue_file, use_json_fallback,
                   tools, posted_tweets, queued_tweets, bot_state, next_uid, failures,
                   calls>>

(* the tools a detection cycle finds in the commits it retrieved; the same *)
(* tool can be in two commits                                              *)
FoundTools == {<<>>, <<"u1">>, <<"u1", "u2">>, <<"u1", "u1">>}

DetectOutcomes == {"ok", "github_error", "exception"}

(* KubetoolsMonitor.check_for_new_tools, the loop: the tools table after   *)
(* every found tool that tool_exists does not know was given to add_tool   *)
RECURSIVE RecordNewTools(_, _, _, _)
RecordNewTools(json, table, found, now) ==
    IF found = <<>> THEN table
    ELSE RecordNewTools(json,
                        IF ToolExists(table, "helm", Head(found)) THEN table
                        ELSE DbAddTool(json, table, "helm", Head(found), now),
                        Tail(found), now)

(* KubetoolsMonitor.check_for_new_tools, the loop: the list new_tools *)
RECURSIVE NewTools(_, _, _, _)
NewTools(json, table, found, now) ==
    IF found = <<>> THEN <<>>
    ELSE IF ToolExists(table, "helm", Head(found))
         THEN NewTools(json, table, Tail(found), now)
         ELSE <<Head(found)>> \o NewTools(json, DbAddTool(json, table, "helm", Head(found), now),
                                          Tail(found), now)

(* the process ends because an exception left a cycle function: main()     *)
(* logs the fatal error and calls sys.exit(1)                              *)
Fatal == [proc EXCEPT !.pc = "exited", !.exit = 1, !.raised = TRUE]

(* faulty variant of the except clause of check_for_new_tools: the tools   *)
(* collected before the exception are returned                             *)
MonitorFailureResultPartial(new_tools) == new_tools

(* KubetoolsMonitor.check_for_new_tools, the except clause: return [] *)
MonitorFailureResult(new_tools) == <<>>

(* run_once, first step: KubetoolsTwitterBot.check_for_new_tools up to the loop *)
(* over new_tools.  _get_recent_commits turns a GithubException into an    *)
(* empty list of commits.  An exception inside                             *)
(* KubetoolsMonitor.check_for_new_tools, here one raised after the found   *)
(* tools were recorded, ends it in its except clause, which skips          *)
(* update_last_check_timestamp; the bot's check_for_new_tools catches what *)
(* is left.  The value of the call record is the number of tools found.    *)
CheckForNewTools(found, outcome) ==
    /\ proc.pc = "check"
    /\ outcome = "github_error" => found = <<>>
    /\ LET commits == ExceptException(IF outcome = "github_error" THEN Raised ELSE "commits",
                                      "no_commits")
           monitor == ExceptException(IF commits = Raised \/ outcome = "exception"
                                      THEN Raised ELSE commits, "failed")
           result == ExceptException(IF monitor = Raised THEN Raised ELSE "None", "None")
           collected == IF commits = "commits"
                        THEN NewTools(use_json_fallback, tools, found, clock) ELSE <<>>
           new_tools == IF monitor = "failed" THEN MonitorFailureResult(collected)
                        ELSE collected
       IN IF result = Raised
          THEN /\ proc' = [Fatal EXCEPT !.detect = outcome,
                                        !.ran = @ \cup {"check_for_new_tools"}]
               /\ UNCHANGED <<tools, bot_state>>
          ELSE /\ proc' = [proc EXCEPT !.pc = IF new_tools = <<>> THEN "post" ELSE "enqueue",
                                       !.new_tools = new_tools,
                                       !.detect = outcome,
                                       !.ran = @ \cup {"check_for_new_tools"}]
               /\ tools' = IF commits = "commits"
                           THEN RecordNewTools(use_json_fallback, tools, found, clock)
                           ELSE tools
               /\ bot_state' = IF monitor \in {"commits", "no_commits"}
                               THEN SetStateValue(use_json_fallback, bot_state,
                                                  "last_check_timestamp", IsoFormat(clock), clock)
                               ELSE bot_state
    /\ op' = Call("check_for_new_tools", TRUE, 0, Len(found))
    /\ UNCHANGED <<clock, tweets_per_day, optimal_hours, tweet_queue, queue_file,
                   use_json_fallback, posted_tweets, queued_tweets, next_uid, failures,
                   calls>>

(* the next state of the process after one item of new_tools was handled *)
NextNewTool ==
    [proc EXCEPT !.new_tools = Tail(@),
                 !.pc = IF Tail(proc.new_tools) = <<>> THEN "post" ELSE "enqueue"]

(* the loop over new_tools: generate_tweet, then add_to_queue *)
EnqueueTool ==
    /\ proc.pc = "enqueue"
    /\ AddToQueue("helm", 1)
    /\ proc' = NextNewTool

(* the loop over new_tools when generate_tweet raises: the except clause   *)
(* inside the loop logs the error and the loop goes on with the next tool  *)
EnqueueFailure ==
    /\ proc.pc = "enqueue"
    /\ LET item == ExceptException(Raised, "skipped")
           result == ExceptException(IF item = Raised THEN Raised ELSE "None", "None")
       IN proc' = IF result = Raised THEN Fatal ELSE NextNewTool
    /\ op' = Call("check_for_new_tools", FALSE, 0, 0)
    /\ UNCHANGED <<clock, tweets_per_day, optimal_hours, tweet_queue, queue_file,
                   use_json_fallback, tools, posted_tweets, queued_tweets, bot_state,
                   next_uid, failures, calls>>

PostOutcomes == {"result", "none", "raises"}

(* TweetScheduler.post_next_tweet, the posting client returned a result    *)
(* and the store is failing: mark_tweet_posted and update_last_tweet_time  *)
(* log the error and return False, which post_next_tweet does not look at; *)
(* value 1 marks the store failure.                                        *)
PostNextSuccessStoreFailure ==
    /\ Step
    /\ tweet_queue # <<>>
    /\ LET next_tweet == NextTweet(tweet_queue)
           q == Pop0(tweet_queue)
       IN /\ tweet_queue' = q
          /\ queue_file' = SaveQueue(q)
          /\ op' = Call("post_next_tweet", TRUE, next_tweet.uid, 1)
    /\ UNCHANGED <<clock, tweets_per_day, optimal_hours, use_json_fallback, tools,
                   posted_tweets, queued_tweets, bot_state, next_uid, failures>>

(* TweetScheduler.post_next_tweet, the posting client returned None and    *)
(* the store is failing: mark_tweet_failed logs the error and returns      *)
(* False; value 1 marks the store failure.                                 *)
PostNextFailureStoreFailure ==
    /\ Step
    /\ tweet_queue # <<>>
    /\ LET head == NextTweet(tweet_queue)
           next_tweet == [head EXCEPT !.attempts = head.attempts + 1]
       IN /\ tweet_queue' =
                 IF Exhausted(next_tweet.attempts, next_tweet.max_attempts)
                 THEN Pop0(tweet_queue)
                 ELSE SortQueue([i \in 1..Len(tweet_queue) |->
                                   IF tweet_queue[i].uid = head.uid
                                   THEN [next_tweet EXCEPT !.scheduled_for =
                                               RetryTime(clock, next_tweet.attempts)]
                                   ELSE tweet_queue[i]])
          /\ queue_file' = SaveQueue(tweet_queue')
          /\ failures' = [failures EXCEPT ![head.uid] = @ + 1]
          /\ op' = Call("post_next_tweet", FALSE, head.uid, 1)
    /\ UNCHANGED <<clock, tweets_per_day, optimal_hours, use_json_fallback, tools,
                   posted_tweets, queued_tweets, bot_state, next_uid>>

(* TwitterClient.post_tweet: the created tweet ("result"), None when the   *)
(* response carries no data and None when tweepy raises                    *)
PostTweet(post) == ExceptException(IF post = "raises" THEN Raised ELSE post, "none")

(* Database.get_last_tweet_time, mark_tweet_posted, update_last_tweet_time *)
(* and mark_tweet_failed: a storage error is logged and the default        *)
(* (None / False) is returned                                              *)
StoreCall(store_ok, default) ==
    ExceptException(IF store_ok THEN "ok" ELSE Raised, default)

(* TweetScheduler.should_post_tweet with a store that may fail: the store  *)
(* is asked for the last post only when the head is not due                *)
ShouldPostTweetOutcome(q, now, posted, tpd, store_ok) ==
    LET head_due == q # <<>> /\ q[1].scheduled_for # None /\ q[1].scheduled_for <= now
        last == IF q = <<>> \/ head_due THEN "ok" ELSE StoreCall(store_ok, "None")
    IN ExceptException(
           IF last = Raised THEN Raised
           ELSE IF ShouldPostTweet(q, now, IF last = "ok" THEN posted ELSE <<>>, tpd)
                THEN "True" ELSE "False",
           "False")

(* TweetScheduler.post_next_tweet on a non-empty queue: what it returns *)
PostNextTweetOutcome(q, post, store_ok) ==
    LET result == PostTweet(post)
        store == IF result = "result"
                    \/ Exhausted(q[1].attempts + 1, q[1].max_attempts)
                 THEN StoreCall(store_ok, "False") ELSE "ok"
    IN ExceptException(
           IF result = Raised \/ store = Raised THEN Raised
           ELSE IF result = "result" THEN "True" ELSE "False",
           "False")

(* KubetoolsTwitterBot.process_tweet_queue: what it returns *)
ProcessTweetQueueOutcome(q, now, posted, tpd, post, store_ok) ==
    LET should == ShouldPostTweetOutcome(q, now, posted, tpd, store_ok)
    IN ExceptException(
           IF should = Raised THEN Raised
           ELSE IF should = "True" /\ PostNextTweetOutcome(q, post, store_ok) = Raised
                THEN Raised
                ELSE "None",
           "None")

(* run_once, second step: process_tweet_queue, then get_stats and the end  *)
(* of main() with exit status 0                                            *)
ProcessQueue(post, store_ok) ==
    /\ proc.pc = "post"
    /\ LET should == ShouldPostTweetOutcome(tweet_queue, clock, posted_tweets,
                                            tweets_per_day, store_ok)
           outcome == ProcessTweetQueueOutcome(tweet_queue, clock, posted_tweets,
                                               tweets_per_day, post, store_ok)
           done == [proc EXCEPT !.pc = "exited", !.exit = 0,
                                !.ran = @ \cup {"process_tweet_queue"}]
       IN IF outcome = Raised
          THEN /\ proc' = [Fatal EXCEPT !.ran = @ \cup {"process_tweet_queue"}]
               /\ UNCHANGED <<clock, tweets_per_day, optimal_hours, tweet_queue, queue_file,
                              use_json_fallback, tools, posted_tweets, queued_tweets,
                              bot_state, op, next_uid, failures, calls>>
          ELSE IF should = "False"
          THEN /\ post = "none" /\ store_ok
               /\ proc' = done
               /\ op' = Call("should_post_tweet", FALSE, 0, 0)
               /\ UNCHANGED <<clock, tweets_per_day, optimal_hours, tweet_queue, queue_file,
                              use_json_fallback, tools, posted_tweets, queued_tweets,
                              bot_state, next_uid, failures, calls>>
          ELSE IF PostTweet(post) = "result"
          THEN /\ IF store_ok THEN PostNextSuccess ELSE PostNextSuccessStoreFailure
               /\ proc' = done
          ELSE /\ IF store_ok THEN PostNextFailure ELSE PostNextFailureStoreFailure
               /\ proc' = done

(* faulty variant of the component status: the value returned is looked at *)
ComponentStatusChecked(outcome) == IF outcome = "True" THEN "healthy" ELSE "unhealthy"

(* KubetoolsTwitterBot.health_check, one component: 'healthy' unless the call *)
(* raised; the value returned is not looked at                             *)
ComponentStatus(outcome) == IF outcome = Raised THEN "unhealthy" ELSE "healthy"

(* Database.health_check, TwitterClient.health_check and                   *)
(* KubetoolsMonitor.health_check: True, or False when the probe fails; an  *)
(* exception of the probe is caught and gives False                        *)
ComponentHealthCheck(ok) == ExceptException(IF ok THEN "True" ELSE Raised, "False")

(* health mode: KubetoolsTwitterBot.health_check over the three components, then *)
(* sys.exit(1) when the status is not 'healthy'                            *)
HealthCheck(database_ok, twitter_ok, github_ok) ==
    /\ proc.pc = "health"
    /\ LET components == <<ComponentStatus(ComponentHealthCheck(database_ok)),
                           ComponentStatus(ComponentHealthCheck(twitter_ok)),
                           ComponentStatus(ComponentHealthCheck(github_ok))>>
           status == IF \E i \in 1..3 : components[i] = "unhealthy"
                     THEN "unhealthy" ELSE "healthy"
       IN proc' = [proc EXCEPT !.pc = "exited",
                               !.health = <<database_ok, twitter_ok, github_ok>>,
                               !.status = status,
                               !.exit = IF status # "healthy" THEN 1 ELSE 0]
    /\ op' = Call("health_check", TRUE, 0, 0)
    /\ UNCHANGED <<clock, tweets_per_day, optimal_hours, tweet_queue, queue_file,
                   use_json_fallback, tools, posted_tweets, queued_tweets, bot_state,
                   next_uid, failures, calls>>

(* an hour passes between two runs of the process *)
MainTick ==
    /\ proc.pc = "exited"
    /\ \E start \in StartClocks : clock < start + MaxRuns * 60
    /\ clock' = clock + 60
    /\ UNCHANGED <<tweets_per_day, optimal_hours, tweet_queue, queue_file,
                   use_json_fallback, tools, posted_tweets, queued_tweets, bot_state,
                   op, next_uid, failures, calls, proc>>

MainNext ==
    \/ \E mode \in Modes, dir_ok \in BOOLEAN, json_ok \in BOOLEAN :
          Start(mode, dir_ok, json_ok) /\ UNCHANGED loopVars
    \/ \E found \in FoundTools, outcome \in DetectOutcomes :
          CheckForNewTools(found, outcome) /\ UNCHANGED loopVars
    \/ EnqueueTool /\ UNCHANGED loopVars
    \/ EnqueueFailure /\ UNCHANGED loopVars
    \/ \E post \in PostOutcomes, store_ok \in BOOLEAN :
          ProcessQueue(post, store_ok) /\ UNCHANGED loopVars
    \/ \E database_ok \in BOOLEAN, twitter_ok \in BOOLEAN, github_ok \in BOOLEAN :
          HealthCheck(database_ok, twitter_ok, github_ok) /\ UNCHANGED loopVars
    \/ MainTick /\ UNCHANGED loopVars

MainSpec == Init /\ [][MainNext]_vars

----------------------------------------------------------------------------
(* Progress of the queue: tweets are enqueued in the first three hours,    *)
(* the post cycle keeps running and the clock advances.  run_continuous    *)
(* runs process_tweet_queue every 30 minutes, so an hour does not pass     *)
(* with a due tweet and no post cycle.                                     *)

LiveHorizon == 3 * MinutesPerDay

(* check_for_new_tools hands a new tool to add_to_queue *)
LiveEnqueue(priority) ==
    /\ next_uid <= MaxLiveTweets
    /\ clock < 11 * 60
    /\ AddToQueue("helm", priority)

(* process_tweet_queue when should_post_tweet is True: post_next_tweet *)
LivePostCycle(post) ==
    /\ ShouldPostTweet(tweet_queue, clock, posted_tweets, tweets_per_day)
    /\ IF PostTweet(post) = "result" THEN PostNextSuccess ELSE PostNextFailure

(* an hour passes; process_tweet_queue found nothing due *)
LiveTick ==
    /\ ~ShouldPostTweet(tweet_queue, clock, posted_tweets, tweets_per_day)
    /\ clock < LiveHorizon
    /\ clock' = clock + 60
    /\ UNCHANGED <<tweets_per_day, optimal_hours, tweet_queue, queue_file,
                   use_json_fallback, tools, posted_tweets, queued_tweets, bot_state,
                   op, next_uid, failures, calls>>

LivePost == \E post \in PostOutcomes : LivePostCycle(post) /\ UNCHANGED <<loopVars, proc>>

LiveNext ==
    \/ \E priority \in Priorities : LiveEnqueue(priority) /\ UNCHANGED <<loopVars, proc>>
    \/ LivePost
    \/ LiveTick /\ UNCHANGED <<loopVars, proc>>

LiveSpec ==
    /\ Init
    /\ [][LiveNext]_vars
    /\ WF_vars(LivePost)
    /\ WF_vars(LiveTick /\ UNCHANGED <<loopVars, proc>>)

----------------------------------------------------------------------------
(* add_to_queue when _calculate_next_slot meets an error.  The store call  *)
(* get_recent_tweet_times raising (a store object that does not catch its  *)
(* own errors) and an empty optimal_hours list (IndexError on              *)
(* optimal_hours[0]) both end in the except clause of                      *)
(* _calculate_next_slot.                                                   *)

FallbackDelayMinutes == 120     \* timedelta(hours=2)

(* whether the try block of _calculate_next_slot raises *)
CalculateNextSlotRaises(hours, store_raises) == store_raises \/ hours = <<>>

(* faulty variant of the except clause of _calculate_next_slot: no delay *)
SlotFallbackNow(now) == now

(* _calculate_next_slot, the except clause: utcnow() + timedelta(hours=2) *)
SlotFallback(now) == now + FallbackDelayMinutes

(* TweetScheduler.add_to_queue, _calculate_next_slot took its except       *)
(* clause; value 1 marks the error                                         *)
AddToQueueSlotError(name, priority, store_raises) ==
    /\ Step
    /\ CalculateNextSlotRaises(optimal_hours, store_raises)
    /\ LET scheduled_time == SlotFallback(clock)
           queued_tweet ==
               [uid |-> next_uid, id |-> TweetId(name, clock), tool_data |-> name,
                tweet_content |-> <<"tweet", name>>, created_at |-> clock,
                scheduled_for |-> scheduled_time, priority |-> priority,
                attempts |-> 0, max_attempts |-> DefaultMaxAttempts]
           q == SortQueue(Append(tweet_queue, queued_tweet))
       IN /\ tweet_queue' = q
          /\ queue_file' = SaveQueue(q)
          /\ queued_tweets' = DbAddQueuedTweet(use_json_fallback, queued_tweets, queued_tweet)
          /\ op' = Call("add_to_queue", TRUE, 0, 1)
    /\ next_uid' = next_uid + 1
    /\ failures' = Append(failures, 0)
    /\ UNCHANGED <<clock, tweets_per_day, optimal_hours, use_json_fallback, tools,
                   posted_tweets, bot_state>>

SlotErrorHourLists == {DefaultOptimalHours, <<>>}

SlotErrorInit ==
    /\ clock \in StartClocks
    /\ tweets_per_day = DefaultTweetsPerDay
    /\ optimal_hours \in SlotErrorHourLists
    /\ tweet_queue = <<>>
    /\ queue_file = <<>>
    /\ use_json_fallback \in BOOLEAN
    /\ tools = <<>>
    /\ posted_tweets = <<>>
    /\ queued_tweets = <<>>
    /\ bot_state = <<>>
    /\ op = NoCall
    /\ next_uid = 1
    /\ failures = <<>>
    /\ calls = 0
    /\ tasks = <<>>
    /\ current = 0
    /\ proc = NoProc

SlotErrorNext ==
    \/ \E name \in QueueToolNames, priority \in Priorities :
          /\ ~CalculateNextSlotRaises(optimal_hours, FALSE)
          /\ AddToQueue(name, priority)
          /\ UNCHANGED <<loopVars, proc>>
    \/ \E name \in QueueToolNames, priority \in Priorities, store_raises \in BOOLEAN :
          AddToQueueSlotError(name, priority, store_raises) /\ UNCHANGED <<loopVars, proc>>
    \/ PostNextSuccess /\ UNCHANGED <<loopVars, proc>>
    \/ Tick(60) /\ UNCHANGED <<loopVars, proc>>

SlotErrorSpec == SlotErrorInit /\ [][SlotErrorNext]_vars

----------------------------------------------------------------------------
(* The daily quota: tools are enqueued and post cycles run, for a small    *)
(* tweets_per_day.  Two post cycles are at least a minute apart, so a      *)
(* cycle that follows a delivery reads a later clock.                      *)

QuotaValues == {1, 2}

QuotaInit ==
    /\ clock \in StartClocks
    /\ tweets_per_day \in QuotaValues
    /\ optimal_hours = DefaultOptimalHours
    /\ tweet_queue = <<>>
    /\ queue_file = <<>>
    /\ use_json_fallback \in BOOLEAN
    /\ tools = <<>>
    /\ posted_tweets = <<>>
    /\ queued_tweets = <<>>
    /\ bot_state = <<>>
    /\ op = NoCall
    /\ next_uid = 1
    /\ failures = <<>>
    /\ calls = 0
    /\ tasks = <<>>
    /\ current = 0
    /\ proc = NoProc

(* check_for_new_tools hands a tool to add_to_queue; the tools of the      *)
(* explored runs differ, so no two entries share an id                     *)
QuotaEnqueue(name, priority) ==
    /\ TweetId(name, clock) \notin QueueIds(tweet_queue)
    /\ \A i \in 1..Len(posted_tweets) : posted_tweets[i].tweet_id # TweetId(name, clock)
    /\ AddToQueue(name, priority)

(* process_tweet_queue when should_post_tweet is True: post_next_tweet *)
QuotaPostCycle(post) ==
    /\ ShouldPostTweet(tweet_queue, clock, posted_tweets, tweets_per_day)
    /\ GetLastTweetTime(posted_tweets) # clock
    /\ IF PostTweet(post) = "result" THEN PostNextSuccess ELSE PostNextFailure

QuotaNext ==
    \/ \E name \in ToolNames, priority \in Priorities :
          QuotaEnqueue(name, priority) /\ UNCHANGED <<loopVars, proc>>
    \/ \E post \in PostOutcomes : QuotaPostCycle(post) /\ UNCHANGED <<loopVars, proc>>
    \/ Tick(60) /\ UNCHANGED <<loopVars, proc>>

QuotaSpec == QuotaInit /\ [][QuotaNext]_vars

----------------------------------------------------------------------------
(* Detection cycles on their own: run_continuous runs check_for_new_tools  *)
(* every check_interval_hours.  A tool is known by its url; the entry made *)
(* for it carries the url as its tool_data.                                *)

(* the scheduled job starts the next detection cycle, an hour after the    *)
(* one before; the cycles after the MaxRuns-th are explored at the clock   *)
(* reading of that cycle                                                   *)
DetectStart ==
    /\ proc.pc \in {"exited", "post"}
    /\ LET counted == proc.runs < MaxRuns
       IN /\ proc' = [NoProc EXCEPT !.mode = "continuous", !.pc = "check",
                                    !.runs = IF counted THEN proc.runs + 1 ELSE proc.runs]
          /\ clock' = IF counted THEN clock + 60 ELSE clock
    /\ op' = NoCall
    /\ UNCHANGED <<tweets_per_day, optimal_hours, tweet_queue, queue_file,
                   use_json_fallback, tools, posted_tweets, queued_tweets, bot_state,
                   next_uid, failures, calls>>

(* the loop over new_tools: generate_tweet, then add_to_queue for the tool *)
DetectEnqueueTool ==
    /\ proc.pc = "enqueue"
    /\ AddToQueue(Head(proc.new_tools), 1)
    /\ proc' = NextNewTool

DetectNext ==
    \/ DetectStart /\ UNCHANGED loopVars
    \/ \E found \in FoundTools, outcome \in DetectOutcomes :
          CheckForNewTools(found, outcome) /\ UNCHANGED loopVars
    \/ DetectEnqueueTool /\ UNCHANGED loopVars
    \/ EnqueueFailure /\ UNCHANGED loopVars

DetectSpec == Init /\ [][DetectNext]_vars

(* the scheduled job keeps being run and a started cycle runs to its end *)
DetectLiveSpec == Init /\ [][DetectNext]_vars /\ WF_vars(DetectNext)

----------------------------------------------------------------------------
(* Claims *)

(* C1: a queued tweet whose delivery has failed max_attempts times is      *)
(* removed from the queue by the failure that brings it there (no entry of *)
(* the queue has max_attempts failed deliveries behind it), and no later   *)
(* post_next_tweet call hands it to the posting client again.              *)
C1_DroppedNeverResent ==
    [][/\ \A i \in 1..Len(tweet_queue') :
              failures'[tweet_queue'[i].uid] < tweet_queue'[i].max_attempts
       /\ (op'.name = "post_next_tweet" /\ op'.sent # 0)
              => failures[op'.sent] < DefaultMaxAttempts]_vars

(* a tweet was dropped after max_attempts failures and a later call sent another entry *)
C1_Witness ==
    \E u \in 1..Len(failures) :
        /\ failures[u] = DefaultMaxAttempts
        /\ u \notin QueueUids(tweet_queue)
        /\ op.name = "post_next_tweet"
        /\ op.sent # 0
        /\ op.sent # u

(* C2: after every operation the queue is ordered by descending priority,  *)
(* then ascending scheduled_for with unscheduled entries last, then        *)
(* ascending created_at.                                                   *)
C2_QueueSorted ==
    \A i \in 1..(Len(tweet_queue) - 1) :
        LET a == tweet_queue[i]
            b == tweet_queue[i + 1]
            schedBefore == a.scheduled_for # None
                           /\ (b.scheduled_for = None \/ a.scheduled_for < b.scheduled_for)
        IN \/ a.priority > b.priority
           \/ a.priority = b.priority /\ schedBefore
           \/ a.priority = b.priority /\ a.scheduled_for = b.scheduled_for
              /\ a.created_at <= b.created_at

(* a reschedule has moved a later-created entry ahead of an older one of the same priority *)
C2_Witness ==
    /\ op.name = "reschedule_tweet"
    /\ op.ret
    /\ Len(tweet_queue) >= 2
    /\ tweet_queue[1].priority = tweet_queue[2].priority
    /\ tweet_queue[1].created_at > tweet_queue[2].created_at

(* C3: post_next_tweet hands to the posting client the entry that is first *)
(* in the queue's sort order at the time of the call: no entry of the      *)
(* queue strictly precedes it (higher priority, or same priority and       *)
(* earlier scheduled_for, or both same and earlier created_at).            *)
C3_SendsFirstInOrder ==
    [][(op'.name = "post_next_tweet" /\ op'.sent # 0) =>
          \E i \in 1..Len(tweet_queue) :
              /\ tweet_queue[i].uid = op'.sent
              /\ \A j \in 1..Len(tweet_queue) :
                    LET a == tweet_queue[j]
                        b == tweet_queue[i]
                        schedBefore == a.scheduled_for # None
                                       /\ (b.scheduled_for = None
                                           \/ a.scheduled_for < b.scheduled_for)
                    IN ~ \/ a.priority > b.priority
                         \/ a.priority = b.priority /\ schedBefore
                         \/ a.priority = b.priority /\ a.scheduled_for = b.scheduled_for
                            /\ a.created_at < b.created_at]_vars

(* three entries were enqueued with priorities 1, 3, 1 and the first call sent the second *)
C3_Witness ==
    /\ calls = 4
    /\ next_uid = 4
    /\ op.name = "post_next_tweet"
    /\ op.sent = 2
    /\ Len(tweet_queue) = 3
    /\ \A i \in 1..3 : tweet_queue[i].priority = (IF tweet_queue[i].uid = 2 THEN 3 ELSE 1)
    /\ \E i \in 1..3 : tweet_queue[i].uid = 2 /\ tweet_queue[i].attempts = 1

(* C4: between operations, the queue rebuilt from the queue file by        *)
(* _load_queue has the same entries, in the same order, with the same ids, *)
(* attempts and scheduled_for as the in-memory queue.                      *)
C4_RestartSafe ==
    LET rebuilt == LoadQueue(queue_file)
    IN /\ Len(rebuilt) = Len(tweet_queue)
       /\ \A i \in 1..Len(tweet_queue) :
              /\ rebuilt[i].id = tweet_queue[i].id
              /\ rebuilt[i].attempts = tweet_queue[i].attempts
              /\ rebuilt[i].scheduled_for = tweet_queue[i].scheduled_for

(* a restart has rebuilt a queue of two or more entries, one of them already retried *)
C4_Witness ==
    /\ op.name = "__init__"
    /\ Len(tweet_queue) >= 2
    /\ \E i \in 1..Len(tweet_queue) :
           /\ tweet_queue[i].attempts >= 1
           /\ tweet_queue[i].scheduled_for = tweet_queue[i].created_at + RetryDelayMinutes

(* C5: add_tool called with a (name, url) already recorded changes         *)
(* nothing, and after every add_tool each (name, url) has exactly one      *)
(* record, in both storage modes.                                          *)
C5_AddToolIdempotent ==
    [][op'.name = "add_tool" =>
          /\ \A i, j \in 1..Len(tools') :
                 (tools'[i].name = tools'[j].name /\ tools'[i].url = tools'[j].url) => i = j
          /\ \/ tools' = tools
             \/ /\ Len(tools') = Len(tools) + 1
                /\ SubSeq(tools', 1, Len(tools)) = tools]_vars

(* C6: for every non-empty list of recent send times the slot returned by  *)
(* _calculate_next_slot is at or after the latest recent send plus         *)
(* min_interval_hours.                                                     *)
C6_MinSpacing ==
    LET recent == GetRecentTweetTimes(posted_tweets, clock, 1)
    IN (op.name = "_calculate_next_slot" /\ recent # <<>>)
          => op.value >= SeqMax(recent) + MinIntervalHours(tweets_per_day) * 60

(* C7: with no recent sends the returned slot is today's earliest optimal  *)
(* hour strictly after now, otherwise tomorrow's first optimal hour; it is *)
(* a whole optimal hour and not before now.  Quota 4, hours 9/13/17/21,    *)
(* now 08:00 gives today 09:00.                                            *)
C7_NoRecentOptimalHour ==
    LET recent == GetRecentTweetTimes(posted_tweets, clock, 1)
        today == DateOf(clock)
        hourSet == {optimal_hours[i] : i \in 1..Len(optimal_hours)}
        laterToday == {t \in {today * MinutesPerDay + h * 60 : h \in hourSet} : t > clock}
    IN (op.name = "_calculate_next_slot" /\ recent = <<>>) =>
          /\ op.value >= clock
          /\ \E h \in hourSet, d \in {today, today + 1} : op.value = d * MinutesPerDay + h * 60
          /\ laterToday # {} => (op.value \in laterToday /\ \A t \in laterToday : op.value <= t)
          /\ laterToday = {} => op.value = (today + 1) * MinutesPerDay + optimal_hours[1] * 60
          /\ (clock = Day1 + 8 * 60 /\ optimal_hours = <<9, 13, 17, 21>>)
                => op.value = Day1 + 9 * 60

(* now is exactly 09:00 with nothing sent: the slot is 13:00, strictly after now *)
C7_Witness ==
    /\ op.name = "_calculate_next_slot"
    /\ posted_tweets = <<>>
    /\ tweets_per_day = 4
    /\ optimal_hours = <<9, 13, 17, 21>>
    /\ clock = Day1 + 9 * 60
    /\ op.value = Day1 + 13 * 60

(* C8: with fewer than tweets_per_day sends today and a non-empty recent   *)
(* list, the returned slot is the later of the earliest optimal hour       *)
(* strictly after now and the latest recent send plus min_interval_hours.  *)
(* Quota 4, one send at 09:05, now 09:10 gives today 14:05.                *)
C8_UnderQuotaLaterOfTwo ==
    LET recent == GetRecentTweetTimes(posted_tweets, clock, 1)
        today == DateOf(clock)
        sentToday == SelectSeq(recent, LAMBDA t : DateOf(t) = today)
        hourSet == {optimal_hours[i] : i \in 1..Len(optimal_hours)}
        laterToday == {t \in {today * MinutesPerDay + h * 60 : h \in hourSet} : t > clock}
        nextHour == IF laterToday # {}
                    THEN CHOOSE t \in laterToday : \A u \in laterToday : t <= u
                    ELSE (today + 1) * MinutesPerDay + optimal_hours[1] * 60
        spaced == SeqMax(recent) + MinIntervalHours(tweets_per_day) * 60
    IN (op.name = "_calculate_next_slot" /\ recent # <<>> /\ Len(sentToday) < tweets_per_day) =>
          /\ op.value = (IF nextHour >= spaced THEN nextHour ELSE spaced)
          /\ (clock = Day1 + 9 * 60 + 10 /\ tweets_per_day = 4
              /\ optimal_hours = <<9, 13, 17, 21>> /\ recent = <<Day1 + 9 * 60 + 5>>)
                => op.value = Day1 + 14 * 60 + 5

(* the scenario: quota 4, one send at 09:05, now 09:10, slot 14:05 *)
C8_Witness ==
    /\ op.name = "_calculate_next_slot"
    /\ tweets_per_day = 4
    /\ optimal_hours = <<9, 13, 17, 21>>
    /\ clock = Day1 + 9 * 60 + 10
    /\ PostedAtTimes(posted_tweets) = <<Day1 + 9 * 60 + 5>>
    /\ op.value = Day1 + 14 * 60 + 5

(* C9: when the recent sends falling on now's calendar date number         *)
(* tweets_per_day or more (exactly tweets_per_day included), the returned  *)
(* slot is the first optimal hour of the next calendar day.                *)
C9_QuotaReachedTomorrow ==
    LET recent == GetRecentTweetTimes(posted_tweets, clock, 1)
        sentToday == SelectSeq(recent, LAMBDA t : DateOf(t) = DateOf(clock))
    IN (op.name = "_calculate_next_slot" /\ Len(sentToday) >= tweets_per_day) =>
          op.value = (DateOf(clock) + 1) * MinutesPerDay + optimal_hours[1] * 60

(* the scenario: exactly 4 sends today with quota 4, now 15:00, slot 09:00 the next day *)
C9_Witness ==
    /\ op.name = "_calculate_next_slot"
    /\ tweets_per_day = 4
    /\ optimal_hours = <<9, 13, 17, 21>>
    /\ clock = Day1 + 15 * 60
    /\ Len(posted_tweets) = 4
    /\ \A i \in 1..Len(posted_tweets) :
           DateOf(FromIsoFormat(posted_tweets[i].posted_at)) = DateOf(clock)
    /\ op.value = 2 * MinutesPerDay + 9 * 60

(* C10: post_next_tweet on an empty queue returns False without calling    *)
(* the posting client and leaves the queue, the queue file, the posted     *)
(* history, the pending collection and the last-post time unchanged.       *)
C10_EmptyQueueNoop ==
    [][(op'.name = "post_next_tweet" /\ tweet_queue = <<>>) =>
          /\ op'.ret = FALSE
          /\ op'.sent = 0
          /\ UNCHANGED <<tweet_queue, queue_file, posted_tweets, queued_tweets,
                         bot_state, tools>>]_vars

(* the call came after a delivery had emptied the queue, so there was state to keep *)
C10_Witness ==
    /\ op.name = "post_next_tweet"
    /\ op.sent = 0
    /\ op.ret = FALSE
    /\ tweet_queue = <<>>
    /\ posted_tweets # <<>>
    /\ bot_state # <<>>

----------------------------------------------------------------------------
(* Ordering of two queue entries, used to state the claims below *)

StrictlyBefore(a, b) ==
    \/ a.priority > b.priority
    \/ a.priority = b.priority /\ a.scheduled_for # None
       /\ (b.scheduled_for = None \/ a.scheduled_for < b.scheduled_for)
    \/ a.priority = b.priority /\ a.scheduled_for = b.scheduled_for
       /\ a.created_at < b.created_at

InOrder(q) == \A i \in 1..(Len(q) - 1) : ~StrictlyBefore(q[i + 1], q[i])

RecordsOf(table, tweet_id) == SelectSeq(table, LAMBDA r : r.tweet_id = tweet_id)

(* C12: the id produced by an add_to_queue call differs from the id of     *)
(* every entry enqueued before it: those still in the queue and those      *)
(* already recorded in the posted history.                                 *)
C12_UniqueIds ==
    [][op'.name = "add_to_queue" =>
          \A i \in 1..Len(tweet_queue') :
              tweet_queue'[i].uid = next_uid =>
                  /\ tweet_queue'[i].id \notin QueueIds(tweet_queue)
                  /\ \A k \in 1..Len(posted_tweets) :
                         posted_tweets[k].tweet_id # tweet_queue'[i].id]_vars

(* C14: when the posting client returns a result, post_next_tweet removes  *)
(* exactly the head from the queue, persists the queue, leaves no record   *)
(* of the head in the pending collection and leaves the pending records of *)
(* every other queue entry as they were, sets the last-post time to now    *)
(* and returns True.                                                       *)
C14_SuccessRemovesHead ==
    [][(op'.name = "post_next_tweet" /\ op'.sent # 0 /\ op'.ret) =>
          LET head == tweet_queue[1]
          IN /\ op'.sent = head.uid
             /\ tweet_queue' = Tail(tweet_queue)
             /\ queue_file' = SaveQueue(Tail(tweet_queue))
             /\ RecordsOf(queued_tweets', head.id) = <<>>
             /\ \A i \in 2..Len(tweet_queue) :
                    RecordsOf(queued_tweets', tweet_queue[i].id)
                        = RecordsOf(queued_tweets, tweet_queue[i].id)
             /\ \E k \in 1..Len(bot_state') :
                    /\ bot_state'[k].key = "last_tweet_time"
                    /\ bot_state'[k].value = IsoFormat(clock)]_vars

(* C15: when the posting client returns no result, post_next_tweet returns *)
(* False and the head's attempts grow by exactly one; if they are then     *)
(* >= max_attempts the head is removed, otherwise the head stays with      *)
(* scheduled_for = now + 1 hour whatever the attempt number, every other   *)
(* entry is unchanged and the queue is in sort order; in both cases the    *)
(* queue file holds the resulting queue.                                   *)
C15_FailureRetriesOrDrops ==
    [][(op'.name = "post_next_tweet" /\ op'.sent # 0 /\ ~op'.ret) =>
          LET head == tweet_queue[1]
              n == head.attempts + 1
              retried == [head EXCEPT !.attempts = n, !.scheduled_for = clock + 60]
          IN /\ op'.sent = head.uid
             /\ failures'[head.uid] = failures[head.uid] + 1
             /\ queue_file' = SaveQueue(tweet_queue')
             /\ IF n >= head.max_attempts
                THEN tweet_queue' = Tail(tweet_queue)
                ELSE /\ Len(tweet_queue') = Len(tweet_queue)
                     /\ \E i \in 1..Len(tweet_queue') : tweet_queue'[i] = retried
                     /\ \A j \in 2..Len(tweet_queue) :
                            \E i \in 1..Len(tweet_queue') : tweet_queue'[i] = tweet_queue[j]
                     /\ InOrder(tweet_queue')]_vars

(* a second failure of the same entry: attempts 2, retry again one hour after now *)
C15_Witness ==
    /\ op.name = "post_next_tweet"
    /\ op.sent # 0
    /\ ~op.ret
    /\ \E i \in 1..Len(tweet_queue) :
           /\ tweet_queue[i].uid = op.sent
           /\ tweet_queue[i].attempts = 2
           /\ tweet_queue[i].scheduled_for = clock + 60
           /\ clock > tweet_queue[i].created_at

(* C16: every entry of the queue has attempts <= max_attempts, in every    *)
(* reachable state, entries reloaded by a restart included.                *)
C16_AttemptsBounded ==
    \A i \in 1..Len(tweet_queue) : tweet_queue[i].attempts <= tweet_queue[i].max_attempts

(* a restart has reloaded an entry that is one failure away from being dropped *)
C16_Witness ==
    /\ op.name = "__init__"
    /\ \E i \in 1..Len(tweet_queue) :
           tweet_queue[i].attempts = tweet_queue[i].max_attempts - 1

(* C17: a reschedule_tweet call that changes an entry's scheduled_for sets *)
(* it to a time not earlier than its previous value.                       *)
C17_ScheduleOnlyForward ==
    [][(op'.name = "reschedule_tweet" /\ op'.ret) =>
          \A i \in 1..Len(tweet_queue), j \in 1..Len(tweet_queue') :
              (tweet_queue[i].uid = tweet_queue'[j].uid /\ tweet_queue[i].scheduled_for # None)
                  => tweet_queue'[j].scheduled_for >= tweet_queue[i].scheduled_for]_vars

(* C18: the pending collection of the store holds exactly the entries of   *)
(* the in-memory queue, with the same attempts and scheduled_for, so its   *)
(* count equals len(tweet_queue).                                          *)
C18_PendingMirrorsQueue ==
    /\ Len(queued_tweets) = Len(tweet_queue)
    /\ \A i \in 1..Len(tweet_queue) :
           \E k \in 1..Len(queued_tweets) :
               /\ queued_tweets[k].tweet_id = tweet_queue[i].id
               /\ queued_tweets[k].attempts = tweet_queue[i].attempts
               /\ queued_tweets[k].scheduled_for = IsoFormat(tweet_queue[i].scheduled_for)

(* C19: the posted history gains exactly one record, carrying the id of    *)
(* the delivered entry, at each successful delivery, and is unchanged by   *)
(* every other step.                                                       *)
C19_OneRecordPerDelivery ==
    [][IF op'.name = "post_next_tweet" /\ op'.sent # 0 /\ op'.ret
       THEN /\ Len(posted_tweets') = Len(posted_tweets) + 1
            /\ SubSeq(posted_tweets', 1, Len(posted_tweets)) = posted_tweets
            /\ posted_tweets'[Len(posted_tweets')].tweet_id = tweet_queue[1].id
       ELSE posted_tweets' = posted_tweets]_vars

(* C20: tool_exists(name, url) returns True exactly when a record with     *)
(* that name and that url is stored; when the storage cannot be read it    *)
(* returns False, and in both cases it changes nothing in the store.       *)
C20_ToolExistsExact ==
    [][\A name \in ToolNames, url \in ToolUrls :
          /\ CallToolExists(name, url) =>
                /\ op'.ret = (\E i \in 1..Len(tools) :
                                 tools[i].name = name /\ tools[i].url = url)
                /\ tools' = tools
          /\ CallToolExistsStorageFailure(name, url) =>
                /\ op'.ret = FALSE
                /\ tools' = tools]_vars

(* a storage failure made tool_exists answer False although both urls of a name are recorded *)
C20_Witness ==
    /\ op.name = "tool_exists"
    /\ op.value = 1
    /\ op.ret = FALSE
    /\ \E name \in ToolNames : \A url \in ToolUrls : ToolExists(tools, name, url)

(* C13: should_post_tweet returns True exactly when the queue is non-empty *)
(* and either the head's scheduled_for is at or before now, or something   *)
(* was posted and every recorded post is more than min_interval_hours      *)
(* before now; on an empty queue it returns False.                         *)
C13_DueExactly ==
    op.name = "should_post_tweet" =>
        (op.ret <=>
            /\ tweet_queue # <<>>
            /\ \/ /\ tweet_queue[1].scheduled_for # None
                  /\ tweet_queue[1].scheduled_for <= clock
               \/ /\ posted_tweets # <<>>
                  /\ \A k \in 1..Len(posted_tweets) :
                         clock - FromIsoFormat(posted_tweets[k].posted_at)
                             > MinIntervalHours(tweets_per_day) * 60)

(* the head is not due yet, and the last post is one minute more than min_interval_hours ago *)
C13_Witness ==
    /\ op.name = "should_post_tweet"
    /\ op.ret
    /\ tweet_queue # <<>>
    /\ tweet_queue[1].scheduled_for > clock
    /\ tweets_per_day = 4
    /\ posted_tweets # <<>>
    /\ FromIsoFormat(posted_tweets[Len(posted_tweets)].posted_at) = clock - (5 * 60 + 1)

(* C11: in continuous mode at most one post_next_tweet execution is in     *)
(* flight at any time; a cycle that has started (detection or posting)     *)
(* holds the event loop until it is done, so no other cycle runs inside    *)
(* it; and the entry handed to the posting client is still the head of the *)
(* queue when the result is handled, so overlapping cycles never send the  *)
(* same head twice.                                                        *)
C11_OnePostInFlight ==
    /\ Cardinality({i \in 1..Len(tasks) : tasks[i].pc = "post_tweet"}) <= 1
    /\ \A i \in 1..Len(tasks) :
           tasks[i].pc \in {"new_tools", "post_tweet"} => current = i
    /\ \A i \in 1..Len(tasks) :
           tasks[i].pc = "post_tweet" =>
               /\ tweet_queue # <<>>
               /\ tweet_queue[1].uid = tasks[i].head

(* a post cycle is in flight while a detection task created with it waits for the loop *)
C11_Witness ==
    \E i, j \in 1..Len(tasks) :
        /\ tasks[i].kind = "process_tweet_queue"
        /\ tasks[i].pc = "post_tweet"
        /\ current = i
        /\ tasks[j].kind = "check_for_new_tools"
        /\ tasks[j].pc = "created"

(* the entry of q created as object uid *)
EntryOf(q, uid) == q[CHOOSE i \in 1..Len(q) : q[i].uid = uid]

(* C21: reschedule_tweet and remove_tweet with an id that is not in the    *)
(* queue return False and leave the queue and the queue file as they were; *)
(* with an id that is in the queue they change exactly one entry (its      *)
(* scheduled_for is set, resp. it is removed), leave every other entry as  *)
(* it was, keep the queue in sort order and write it to the queue file.    *)
C21_ChangeOnlyThatEntry ==
    [][/\ (op'.name \in {"reschedule_tweet", "remove_tweet"} /\ ~op'.ret) =>
              /\ tweet_queue' = tweet_queue
              /\ queue_file' = queue_file
       /\ (op'.name = "reschedule_tweet" /\ op'.ret) =>
              /\ \E u \in QueueUids(tweet_queue) :
                    /\ QueueUids(tweet_queue') = QueueUids(tweet_queue)
                    /\ \A v \in QueueUids(tweet_queue) \ {u} :
                           EntryOf(tweet_queue', v) = EntryOf(tweet_queue, v)
                    /\ [EntryOf(tweet_queue', u) EXCEPT !.scheduled_for = 0]
                           = [EntryOf(tweet_queue, u) EXCEPT !.scheduled_for = 0]
              /\ Len(tweet_queue') = Len(tweet_queue)
              /\ InOrder(tweet_queue')
              /\ queue_file' = SaveQueue(tweet_queue')
       /\ (op'.name = "remove_tweet" /\ op'.ret) =>
              /\ \E u \in QueueUids(tweet_queue) :
                    /\ QueueUids(tweet_queue') = QueueUids(tweet_queue) \ {u}
                    /\ \A v \in QueueUids(tweet_queue) \ {u} :
                           EntryOf(tweet_queue', v) = EntryOf(tweet_queue, v)
              /\ Len(tweet_queue') = Len(tweet_queue) - 1
              /\ InOrder(tweet_queue')
              /\ queue_file' = SaveQueue(tweet_queue')]_vars

(* C23: a process_tweet_queue cycle enters post_next_tweet only from its   *)
(* due test and only when should_post_tweet is True; every post_next_tweet *)
(* call is the single one of a cycle that then ends, a cycle that ended    *)
(* does nothing more, and a call adds at most one record to the posted     *)
(* history and takes at most one entry from the queue, however many        *)
(* entries are due.                                                        *)
C23_OnePostPerCycle ==
    [][/\ \A i \in 1..Len(tasks) :
              /\ (tasks[i].pc # "post_tweet" /\ tasks'[i].pc = "post_tweet") =>
                     /\ tasks[i].kind = "process_tweet_queue"
                     /\ tasks[i].pc = "created"
                     /\ ShouldPostTweet(tweet_queue, clock, posted_tweets, tweets_per_day)
              /\ tasks[i].pc = "done" => tasks'[i] = tasks[i]
       /\ (op'.name = "post_next_tweet" /\ calls' # calls) =>
              /\ \E i \in 1..Len(tasks) :
                    /\ tasks[i].kind = "process_tweet_queue"
                    /\ tasks[i].pc = "post_tweet"
                    /\ tasks'[i].pc = "done"
                    /\ \A j \in 1..Len(tasks) : j # i => tasks'[j] = tasks[j]
              /\ Len(posted_tweets') <= Len(posted_tweets) + 1
              /\ Len(tweet_queue') >= Len(tweet_queue) - 1]_vars

(* a post cycle delivered one tweet and ended while another entry is due *)
C23_Witness ==
    /\ op.name = "post_next_tweet"
    /\ op.ret
    /\ \E i \in 1..Len(tasks) :
          tasks[i].kind = "process_tweet_queue" /\ tasks[i].pc = "done"
    /\ \A i \in 1..Len(tasks) : tasks[i].pc = "done"
    /\ tweet_queue # <<>>
    /\ tweet_queue[1].scheduled_for <= clock

(* C26: the tracked tools only grow: every record of the tools collection  *)
(* is still there, unmodified, after any store operation, also one that    *)
(* hits a storage read failure.                                            *)
C26_ToolsOnlyGrow ==
    [][\A i \in 1..Len(tools) : \E j \in 1..Len(tools') : tools'[j] = tools[i]]_vars

(* C30: for each scalar state key the store holds at most one entry, a     *)
(* successful _set_state_value of a key makes _get_state_value return the  *)
(* value written, and nothing else changes what _get_state_value returns   *)
(* for the key; so the value read is the one of the most recent successful *)
(* write, in both storage modes.                                           *)
C30_LatestStateValue ==
    [][\A key \in StateKeys :
          LET written == (SetState(key) \/ SetStateStorageFailure(key)) /\ op'.ret
          IN /\ Cardinality({i \in 1..Len(bot_state') : bot_state'[i].key = key}) <= 1
             /\ written => GetStateValue(use_json_fallback, bot_state', key) = IsoFormat(clock)
             /\ ~written => GetStateValue(use_json_fallback, bot_state', key)
                               = GetStateValue(use_json_fallback, bot_state, key)]_vars

(* C22: health mode exits with a non-zero status exactly when one of the   *)
(* three component health checks reports unhealthy (its probe failed), and *)
(* the overall status is 'healthy' exactly when all three are healthy.     *)
C22_HealthExitStatus ==
    (proc.mode = "health" /\ proc.pc = "exited" /\ proc.exit # None /\ proc.health # <<>>) =>
        LET all_healthy == \A i \in 1..3 : proc.health[i]
        IN /\ (proc.exit = 0) <=> all_healthy
           /\ (proc.status = "healthy") <=> all_healthy

(* C24: a detection step that fails (GitHub error while fetching commits,  *)
(* or an exception inside check_for_new_tools) leaves the queue, the queue *)
(* file and the pending collection as they were, hands no new tool to the  *)
(* enqueue loop, lets no exception out and is followed by the post step:   *)
(* the run ends with exit status 0 after process_tweet_queue ran.          *)
C24_DetectionFailureIsZeroItems ==
    [][/\ (proc.pc = "check" /\ proc'.detect \in {"github_error", "exception"}) =>
              /\ tweet_queue' = tweet_queue
              /\ queue_file' = queue_file
              /\ queued_tweets' = queued_tweets
              /\ proc'.new_tools = <<>>
              /\ ~proc'.raised
              /\ proc'.pc = "post"
       /\ (proc'.detect \in {"github_error", "exception"} /\ proc'.pc = "exited") =>
              /\ ~proc'.raised
              /\ proc'.exit = 0
              /\ "process_tweet_queue" \in proc'.ran]_vars

(* a run whose detection raised after finding a tool, and whose post step  *)
(* then delivered a tweet queued by an earlier run                         *)
C24_Witness ==
    /\ proc.detect = "exception"
    /\ tools # <<>>
    /\ proc.pc = "exited"
    /\ proc.exit = 0
    /\ op.name = "post_next_tweet"
    /\ op.ret

(* C25: no failure of the store or of the posting client leaves            *)
(* check_for_new_tools, should_post_tweet, post_next_tweet or              *)
(* process_tweet_queue as an exception: a run that got past construction   *)
(* never ends on the fatal path, a post_next_tweet call whose posting      *)
(* attempt failed returns False, and a delivery failure that uses up the   *)
(* attempts takes the entry out of the queue.                              *)
C25_FailuresAbsorbed ==
    [][/\ ~proc'.raised
       /\ (proc.pc \in {"check", "enqueue", "post"} /\ proc'.pc = "exited") => proc'.exit = 0
       /\ \A post \in {"none", "raises"}, store_ok \in BOOLEAN :
              (ProcessQueue(post, store_ok) /\ op'.name = "post_next_tweet") =>
                  /\ ~op'.ret
                  /\ LET head == tweet_queue[1]
                     IN head.attempts + 1 >= head.max_attempts =>
                            head.uid \notin QueueUids(tweet_queue')]_vars

(* the posting client failed for the third time while the store is         *)
(* failing: the entry was dropped and the run ended normally               *)
C25_Witness ==
    /\ op.name = "post_next_tweet"
    /\ ~op.ret
    /\ op.value = 1
    /\ op.sent # 0
    /\ failures[op.sent] = DefaultMaxAttempts
    /\ op.sent \notin QueueUids(tweet_queue)
    /\ proc.pc = "exited"
    /\ proc.exit = 0

(* C27: a successful delivery by the post step of a later run, the store   *)
(* working, comes at least min_interval_hours after the latest delivery in *)
(* the posted history.                                                     *)
C27_DeliveriesSpaced ==
    [][(op'.name = "post_next_tweet" /\ op'.ret /\ calls' # calls /\ op'.value = 0
            /\ posted_tweets # <<>>
            /\ clock > GetLastTweetTime(posted_tweets)) =>
          (clock - GetLastTweetTime(posted_tweets)) >= MinIntervalHours(tweets_per_day) * 60]_vars

C28_QueueDrains ==
    /\ \A uid \in 1..(MaxLiveTweets + 1) :
           (uid \in QueueUids(tweet_queue)) ~>
               (uid \notin QueueUids(tweet_queue) \/ calls >= MaxCalls)
    /\ (tweet_queue # <<>>) ~>
           (tweet_queue = <<>>
              \/ ShouldPostTweet(tweet_queue, clock, posted_tweets, tweets_per_day))

(* two tweets were enqueued; one was delivered, the other dropped after    *)
(* its third failed attempt, and the queue is empty                        *)
C28_Witness ==
    /\ next_uid = 3
    /\ tweet_queue = <<>>
    /\ posted_tweets # <<>>
    /\ \E uid \in 1..2 : failures[uid] = DefaultMaxAttempts

(* C31: when _calculate_next_slot meets an error, add_to_queue still       *)
(* succeeds: the queue gains exactly the new entry, scheduled two hours    *)
(* after the call, every earlier entry stays, the result is in sort order  *)
(* and is written to the queue file and the pending collection.            *)
C31_ErrorSlotIsTwoHours ==
    [][(op'.name = "add_to_queue" /\ op'.value = 1) =>
          /\ op'.ret
          /\ Len(tweet_queue') = Len(tweet_queue) + 1
          /\ next_uid \in QueueUids(tweet_queue')
          /\ EntryOf(tweet_queue', next_uid).scheduled_for = clock + 2 * 60
          /\ \A i \in 1..Len(tweet_queue) :
                 \E j \in 1..Len(tweet_queue') : tweet_queue'[j] = tweet_queue[i]
          /\ tweet_queue' = SortQueue(tweet_queue')
          /\ queue_file' = SaveQueue(tweet_queue')
          /\ Len(queued_tweets') >= Len(queued_tweets)]_vars

(* at 08:00, with a post already made today, the store call raised: the    *)
(* new entry is due at 10:00, where the regular policy gives a later slot  *)
C31_Witness ==
    /\ op.name = "add_to_queue"
    /\ op.value = 1
    /\ optimal_hours # <<>>
    /\ posted_tweets # <<>>
    /\ \E i \in 1..Len(tweet_queue) :
           /\ tweet_queue[i].uid = next_uid - 1
           /\ tweet_queue[i].scheduled_for = clock + 2 * 60
           /\ tweet_queue[i].scheduled_for #
                  CalculateNextSlot(clock, GetRecentTweetTimes(posted_tweets, clock, 1),
                                    tweets_per_day, optimal_hours)

(* the number of posted records whose posted_at falls on date d *)
PostsOnDate(posted, d) ==
    Cardinality({i \in 1..Len(posted) : DateOf(FromIsoFormat(posted[i].posted_at)) = d})

(* C32: on no calendar date does the number of tweets posted exceed        *)
(* tweets_per_day.                                                         *)
C32_DailyQuotaKept ==
    \A i \in 1..Len(posted_tweets) :
        PostsOnDate(posted_tweets, DateOf(FromIsoFormat(posted_tweets[i].posted_at)))
            <= tweets_per_day

(* the urls of the tools that have an entry in q *)
QueuedTools(q) == {q[i].tool_data : i \in 1..Len(q)}

(* C33: with a working store, a detection step reports as new only tools   *)
(* that were not tracked before it, reports none of them twice, and leaves *)
(* every tool it found tracked; tracked tools stay tracked, and each       *)
(* reported tool is handed to add_to_queue once: no two queue entries are  *)
(* for the same tool.                                                      *)
C33_ReportedOnce ==
    /\ [][/\ (proc.pc = "check" /\ proc'.pc # "check") =>
                 LET new_tools == proc'.new_tools
                 IN /\ \A i \in 1..Len(new_tools) :
                           /\ ~ToolExists(tools, "helm", new_tools[i])
                           /\ ToolExists(tools', "helm", new_tools[i])
                           /\ \A j \in 1..Len(new_tools) :
                                  new_tools[i] = new_tools[j] => i = j
          /\ \A u \in ToolUrls : ToolExists(tools, "helm", u) => ToolExists(tools', "helm", u)
          /\ (proc.pc = "enqueue" /\ op'.name = "add_to_queue") =>
                 /\ proc'.new_tools = Tail(proc.new_tools)
                 /\ Head(proc.new_tools) \notin QueuedTools(tweet_queue)]_vars
    /\ [](\A i, j \in 1..Len(tweet_queue) :
              tweet_queue[i].tool_data = tweet_queue[j].tool_data => i = j)

(* a first cycle found the same tool in two commits and reported it once;  *)
(* it is the only tool tracked                                             *)
C33_Witness ==
    /\ op.name = "check_for_new_tools"
    /\ op.value = 2
    /\ proc.detect = "ok"
    /\ proc.new_tools = <<"u1">>
    /\ proc.runs = 1
    /\ Len(tools) = 1

(* C34: every tool that is tracked is, then or later, given an entry in    *)
(* the tweet queue.                                                        *)
C34_TrackedIsQueued ==
    \A u \in ToolUrls :
        ToolExists(tools, "helm", u) ~> (u \in QueuedTools(tweet_queue))

(* C35: a detection step changes the last-check timestamp only when it     *)
(* retrieved the commits; a step whose fetch met a GitHub error leaves the *)
(* timestamp as it was.                                                    *)
C35_TimestampOnlyAfterFetch ==
    [][(proc.pc = "check" /\ proc'.pc # "check") =>
          /\ (GetStateValue(use_json_fallback, bot_state', "last_check_timestamp")
                 # GetStateValue(use_json_fallback, bot_state, "last_check_timestamp"))
                => proc'.detect = "ok"
          /\ proc'.detect = "github_error" => bot_state' = bot_state]_vars

(* C36: the entry that a post_next_tweet call takes out of the queue, or   *)
(* charges with a failed attempt, is the entry it read as the head and     *)
(* whose content it gave to post_tweet; and from the moment the content is *)
(* given to post_tweet until that call is over nothing else changes the    *)
(* queue.                                                                  *)
C36_RemovedIsSent ==
    [][\A i \in 1..Len(tasks) :
          tasks[i].pc = "post_tweet" =>
              LET sent == tasks[i].head
              IN IF tasks'[i].pc = "done"
                 THEN /\ op'.name = "post_next_tweet"
                      /\ op'.sent = sent
                      /\ sent \in QueueUids(tweet_queue)
                      /\ \/ /\ QueueUids(tweet_queue') = QueueUids(tweet_queue) \ {sent}
                            /\ Len(tweet_queue') = Len(tweet_queue) - 1
                         \/ /\ ~op'.ret
                            /\ QueueUids(tweet_queue') = QueueUids(tweet_queue)
                            /\ EntryOf(tweet_queue', sent).attempts
                                   = EntryOf(tweet_queue, sent).attempts + 1
                 ELSE tweet_queue' = tweet_queue /\ queue_file' = queue_file]_vars

(* a post task and a detection task were created together; the post task   *)
(* delivered the entry it had read while the detection task waits its turn *)
C36_Witness ==
    /\ op.name = "post_next_tweet"
    /\ op.ret
    /\ op.sent # 0
    /\ \E i, j \in 1..Len(tasks) :
           /\ tasks[i].kind = "process_tweet_queue"
           /\ tasks[i].pc = "done"
           /\ tasks[i].head = op.sent
           /\ tasks[j].kind = "check_for_new_tools"
           /\ tasks[j].pc = "created"

(* two stored collections hold the same logical records: the same records  *)
(* and the same count                                                      *)
SameRecords(a, b) ==
    /\ {a[i] : i \in 1..Len(a)} = {b[i] : i \in 1..Len(b)}
    /\ Len(a) = Len(b)

(* C37: from the store contents reached, each store operation gives the    *)
(* same result and leaves the same logical records on the SQLite backend   *)
(* and on the JSON-fallback backend, so equal operation sequences keep the *)
(* two backends equal.                                                     *)
C37_BackendsAgree ==
    /\ \A name \in ToolNames, url \in ToolUrls :
           SameRecords(DbAddTool(TRUE, tools, name, url, clock),
                       DbAddTool(FALSE, tools, name, url, clock))
    /\ \A key \in StateKeys :
           LET json == SetStateValue(TRUE, bot_state, key, IsoFormat(clock), clock)
               sqlite == SetStateValue(FALSE, bot_state, key, IsoFormat(clock), clock)
           IN /\ SameRecords(json, sqlite)
              /\ \A k \in StateKeys :
                     GetStateValue(TRUE, json, k) = GetStateValue(FALSE, sqlite, k)

====
